---- MODULE Spec2Model ----
(***************************************************************************)
(* State-machine model of the SEO agent's two periodic components:         *)
(*   ContentMonitor (src/js/content-monitor.js) and                        *)
(*   Scheduler      (src/js/scheduler.js).                                 *)
(* Each handler of the JavaScript objects is one action.  An async         *)
(* function is cut at its awaits: the synchronous part up to the first     *)
(* await belongs to the caller's action, each resumption is an action of   *)
(* its own.  Timers, the fetcher and the caller of start()/stop() are the  *)
(* environment.                                                            *)
(***************************************************************************)
EXTENDS Integers, Sequences, FiniteSets, TLC

VARIABLES
  monitor,      \* the fields of the ContentMonitor object
  monTimers,    \* interval timers armed by ContentMonitor and not cleared
  monChecks,    \* check() invocations suspended at an await, by invocation id
  monGen,       \* history variable: number of start() calls so far
  monBaseGen,   \* history variable: monGen of the check whose fetch set lastHash
  monOut,       \* callback invocations made by the last step, in order
  monStep       \* history variable: the handler the last step ran

VARIABLES
  scheduler,    \* the fields of the Scheduler object
  schTimers,    \* interval timers armed by Scheduler and not cleared
  schRuns,      \* execute() invocations suspended at an await, by invocation id
  schStore,     \* sessionStorage['seoSchedulerHistory'], present or not
  schGen,       \* history variable: number of start() calls so far
  schOut,       \* callback invocations made by the last step, in order
  schStep,      \* history variable: the handler the last step ran
  schLog        \* history variable: what the last step did for a run, in
                \* program order: notify() calls, writes to History, persist()

monVars == <<monitor, monTimers, monChecks, monGen, monBaseGen, monOut, monStep>>

schVars ==
  <<scheduler, schTimers, schRuns, schStore, schGen, schOut, schStep, schLog>>

VARIABLES
  engine        \* a call of a function of SEOEngine: its arguments and result

engVars == <<engine>>

vars == <<monVars, schVars, engVars>>

(***************************************************************************)
(* Values                                                                  *)
(***************************************************************************)
\* JavaScript null, for the fields that otherwise hold a record.
Null == [null |-> TRUE]

\* A URL string, by the parts the URL parser finds in it.  path = "" is a URL
\* written without the slash after the host ("https://a.example").
Url(host, path, query, frag) ==
  [host |-> host, path |-> path, query |-> query, frag |-> frag]

\* The empty string, and a string the URL parser rejects.
EmptyUrl == [empty |-> TRUE]
BadUrl == [bad |-> TRUE]

\* `!this.url` is false exactly for a non-empty string.
Truthy(u) == u # Null /\ u # EmptyUrl

RootA == Url("a.example", "/", "", "")
RootB == Url("b.example", "/", "", "")

\* options.intervalMs || 30000
DefaultMonitorInterval == 30000

\* A fetched page: the raw text as character codes, and what DOMParser
\* reports for the selectors detectChanges queries.
DocA == [raw |-> <<97>>, title |-> "Shop", desc |-> "d", h1 |-> "Hello",
         words |-> 100, imgs |-> 1, links |-> 2, schema |-> 0]
DocB == [raw |-> <<98>>, title |-> "Sale", desc |-> "d", h1 |-> "Hello",
         words |-> 100, imgs |-> 1, links |-> 2, schema |-> 0]
DocC == [raw |-> <<97, 32>>, title |-> "Shop", desc |-> "d", h1 |-> "Hello",
         words |-> 100, imgs |-> 1, links |-> 2, schema |-> 0]
Docs == {DocA, DocB, DocC}

(***************************************************************************)
(* hashContent: djb2 on 32-bit integers, rendered in base 16.              *)
(* TLC's integers are 32 bits wide, so the arithmetic is done on the two   *)
(* 16-bit halves of the two's-complement representation.                   *)
(***************************************************************************)
\* ((hash << 5) + hash + c) & 0xFFFFFFFF : the bitwise AND yields an int32.
hashStep(hash, c) ==
  LET lo    == hash % 65536
      hi    == (hash \div 65536) % 65536
      lo33  == lo * 33 + c
      hi33  == (hi * 33 + (lo33 \div 65536)) % 65536
      shi   == IF hi33 >= 32768 THEN hi33 - 65536 ELSE hi33
  IN  shi * 65536 + (lo33 % 65536)

RECURSIVE hashLoop(_, _, _)
hashLoop(hash, str, i) ==
  IF i > Len(str) THEN hash ELSE hashLoop(hashStep(hash, str[i]), str, i + 1)

\* The four base-16 digits of a 16-bit value, most significant first.
hex4(n) == << n \div 4096, (n \div 256) % 16, (n \div 16) % 16, n % 16 >>

RECURSIVE stripZeros(_)
stripZeros(ds) ==
  IF Len(ds) > 1 /\ ds[1] = 0 THEN stripZeros(Tail(ds)) ELSE ds

\* Number.prototype.toString(16): a minus sign, then the digits of |n|.
toString16(n) ==
  LET lo  == n % 65536
      hi  == (n \div 65536) % 65536
      alo == IF n < 0 THEN (65536 - lo) % 65536 ELSE lo
      ahi == IF n < 0 THEN (IF lo = 0 THEN 65536 - hi ELSE 65535 - hi) ELSE hi
  IN  [neg |-> n < 0, digits |-> stripZeros(hex4(ahi) \o hex4(alo))]

hashContent(str) == toString16(hashLoop(5381, str, 1))

(***************************************************************************)
(* detectChanges: one record per differing field, 'general' if none.       *)
(***************************************************************************)
Abs(n) == IF n < 0 THEN -n ELSE n

\* The records pushed for the fields that differ, in the order of the checks.
fieldChanges(oldHtml, newHtml) ==
  LET rec(cond, type) == IF cond THEN << type >> ELSE << >>
  IN     rec(oldHtml.title # newHtml.title, "title")
      \o rec(oldHtml.desc # newHtml.desc, "meta-description")
      \o rec(oldHtml.h1 # newHtml.h1, "h1")
      \o rec(Abs(oldHtml.words - newHtml.words) > 10, "content-length")
      \o rec(oldHtml.imgs # newHtml.imgs, "images")
      \o rec(oldHtml.links # newHtml.links, "links")
      \o rec(oldHtml.schema # newHtml.schema, "schema")

\* Mutant: the fallback record for a change no field shows is left out.
detectChanges_noGeneral(oldHtml, newHtml) == fieldChanges(oldHtml, newHtml)

detectChanges(oldHtml, newHtml) ==
  LET changes == fieldChanges(oldHtml, newHtml)
  IN  IF Len(changes) = 0 THEN << "general" >> ELSE changes

(***************************************************************************)
(* ContentMonitor                                                          *)
(***************************************************************************)
\* notify(type, data): the callbacks invoked, in order, each with the
\* baseline it finds in the object (m is the object when notify is called).
monNotify(m, type, data) ==
  LET baseline == [hash |-> m.lastHash, html |-> m.lastHtml]
  IN     (IF type = "change" /\ m.onChangeCallback
            THEN << [cb |-> "onChange", type |-> type, data |-> data,
                     baseline |-> baseline] >>
            ELSE << >>)
      \o (IF m.onStatusCallback
            THEN << [cb |-> "onStatus", type |-> type, data |-> data,
                     baseline |-> baseline] >>
            ELSE << >>)

\* setInterval returns a handle that is not armed at the moment.
FreshTimer(armed) ==
  [id |-> CHOOSE n \in 1..(Cardinality(armed) + 1) : [id |-> n] \notin armed]

\* stop() as a function of the object and the timer table:
\* the object after, the timers after, the callbacks invoked.
monStopEffect(m, timers) ==
  LET m1 == [m EXCEPT !.interval = Null, !.watching = FALSE]
  IN  [m      |-> m1,
       timers |-> IF m.interval # Null THEN timers \ {m.interval} ELSE timers,
       out    |-> monNotify(m1, "status", [state |-> "stopped"])]

\* A check() invocation suspended at its await: whether it is the one start()
\* chained the timer on, the URL it fetches, and the start() it belongs to.
monBegin(checks, initial, url, gen) ==
  LET id == CHOOSE n \in 1..(Cardinality(DOMAIN checks) + 1) : n \notin DOMAIN checks
  IN  (id :> [initial |-> initial, url |-> url, gen |-> gen]) @@ checks

\* Mutant: check() does not look at the watching flag.
monCheckGuard_ignoresWatching(m) == Truthy(m.url)

\* check() up to its first await: the guard, the counter, the fetch issued.
monCheckGuard(m) == m.watching /\ Truthy(m.url)

\* The .then() callback of start(): arms the periodic timer.
monArm(m, timers) ==
  LET t == FreshTimer(timers)
  IN  [m |-> [m EXCEPT !.interval = t], timers |-> timers \cup {t}]

\* Mutant: the callback chained on the initial check never runs.
monSettle_never(m, timers, initial) == [m |-> m, timers |-> timers]

\* What happens when the promise of a check() invocation settles.
monSettle(m, timers, initial) ==
  IF initial THEN monArm(m, timers) ELSE [m |-> m, timers |-> timers]

MonInit ==
  /\ monitor = [watching |-> FALSE, interval |-> Null, url |-> Null,
                lastHash |-> Null, lastHtml |-> Null,
                checkCount |-> 0, changesDetected |-> 0,
                intervalMs |-> DefaultMonitorInterval,
                onChangeCallback |-> FALSE, onStatusCallback |-> FALSE]
  /\ monTimers = {}
  /\ monChecks = << >>
  /\ monGen = 0
  /\ monBaseGen = 0
  /\ monOut = << >>
  /\ monStep = [op |-> "init"]

\* start(url, options)
MonStart(url, intervalMs, onChange, onStatus) ==
  LET s  == IF monitor.watching
              THEN monStopEffect(monitor, monTimers)
              ELSE [m |-> monitor, timers |-> monTimers, out |-> << >>]
      m1 == [s.m EXCEPT !.url = url, !.watching = TRUE, !.checkCount = 0,
                        !.changesDetected = 0,
                        !.intervalMs = IF intervalMs # 0 THEN intervalMs
                                       ELSE DefaultMonitorInterval,
                        !.onChangeCallback = onChange,
                        !.onStatusCallback = onStatus]
      o1 == s.out \o monNotify(m1, "status", [state |-> "started"])
  IN  /\ monGen' = monGen + 1
      /\ monStep' = [op |-> "start", url |-> url, intervalMs |-> intervalMs]
      /\ IF monCheckGuard(m1)
           THEN LET m2 == [m1 EXCEPT !.checkCount = @ + 1]
                IN  /\ monitor' = m2
                    /\ monTimers' = s.timers
                    /\ monChecks' = monBegin(monChecks, TRUE, m2.url, monGen + 1)
                    /\ monOut' = o1 \o monNotify(m2, "status", [state |-> "checking"])
           ELSE \* check() returns at once; its promise settles before any other event
                LET a == monSettle(m1, s.timers, TRUE)
                IN  /\ monitor' = a.m
                    /\ monTimers' = a.timers
                    /\ UNCHANGED monChecks
                    /\ monOut' = o1
      /\ UNCHANGED monBaseGen
      /\ UNCHANGED <<schVars, engVars>>

\* stop()
MonStop ==
  LET s == monStopEffect(monitor, monTimers)
  IN  /\ monitor' = s.m
      /\ monTimers' = s.timers
      /\ monOut' = s.out
      /\ monStep' = [op |-> "stop"]
      /\ UNCHANGED <<monChecks, monGen, monBaseGen>>
      /\ UNCHANGED <<schVars, engVars>>

\* A tick of an armed interval timer: () => this.check()
MonTick(t) ==
  /\ t \in monTimers
  /\ IF monCheckGuard(monitor)
       THEN LET m2 == [monitor EXCEPT !.checkCount = @ + 1]
            IN  /\ monitor' = m2
                /\ monChecks' = monBegin(monChecks, FALSE, m2.url, monGen)
                /\ monOut' = monNotify(m2, "status", [state |-> "checking"])
       ELSE /\ UNCHANGED <<monitor, monChecks>>
            /\ monOut' = << >>
  /\ monStep' = [op |-> "tick"]
  /\ UNCHANGED <<monTimers, monGen, monBaseGen>>
  /\ UNCHANGED <<schVars, engVars>>

Without(f, k) == [x \in (DOMAIN f) \ {k} |-> f[x]]

\* Mutant: the catch block forgets the baseline.
monCatch_resets(m) ==
  [m   |-> [m EXCEPT !.lastHash = Null, !.lastHtml = Null],
   out |-> monNotify(m, "status", [state |-> "error"])]

\* The catch block of check(): the object after it, and the callbacks invoked.
monCatch(m) ==
  [m |-> m, out |-> monNotify(m, "status", [state |-> "error"])]

\* fetch() rejects, the response is not ok, or resp.text() rejects: the catch
\* block runs, then the promise of check() settles
MonFetchFail(c) ==
  /\ c \in DOMAIN monChecks
  /\ LET e == monCatch(monitor)
         a == monSettle(e.m, monTimers, monChecks[c].initial)
     IN  /\ monitor' = a.m
         /\ monTimers' = a.timers
         /\ monOut' = e.out
  /\ monChecks' = Without(monChecks, c)
  /\ monStep' = [op |-> "fetchFail", check |-> monChecks[c]]
  /\ UNCHANGED <<monGen, monBaseGen>>
  /\ UNCHANGED <<schVars, engVars>>

\* The state of the object after check() has the page text, and its callbacks.
\* Mutant: the 'change' event is delivered before the baseline is replaced.
monCompare_notifiesFirst(m, html) ==
  LET hash == hashContent(html.raw)
  IN  IF m.lastHash = Null
        THEN LET m1 == [m EXCEPT !.lastHash = hash, !.lastHtml = html]
             IN  [m   |-> m1,
                  out |-> monNotify(m1, "status", [state |-> "baseline", hash |-> hash]),
                  set |-> TRUE]
      ELSE IF hash # m.lastHash
        THEN LET diff == detectChanges(m.lastHtml, html)
                 m0   == [m EXCEPT !.changesDetected = @ + 1]
                 m1   == [m0 EXCEPT !.lastHash = hash, !.lastHtml = html]
             IN  [m   |-> m1,
                  out |-> monNotify(m0, "change",
                                    [url |-> m1.url, prevHash |-> m.lastHash,
                                     newHash |-> hash, diff |-> diff,
                                     checkNumber |-> m1.checkCount]),
                  set |-> TRUE]
      ELSE [m   |-> m,
            out |-> monNotify(m, "status", [state |-> "no-change"]),
            set |-> FALSE]

monCompare(m, html) ==
  LET hash == hashContent(html.raw)
  IN  IF m.lastHash = Null
        THEN LET m1 == [m EXCEPT !.lastHash = hash, !.lastHtml = html]
             IN  [m   |-> m1,
                  out |-> monNotify(m1, "status", [state |-> "baseline", hash |-> hash]),
                  set |-> TRUE]
      ELSE IF hash # m.lastHash
        THEN LET diff == detectChanges(m.lastHtml, html)
                 m1   == [m EXCEPT !.changesDetected = @ + 1,
                                   !.lastHash = hash, !.lastHtml = html]
             IN  [m   |-> m1,
                  out |-> monNotify(m1, "change",
                                    [url |-> m1.url, prevHash |-> m.lastHash,
                                     newHash |-> hash, diff |-> diff,
                                     checkNumber |-> m1.checkCount]),
                  set |-> TRUE]
      ELSE [m   |-> m,
            out |-> monNotify(m, "status", [state |-> "no-change"]),
            set |-> FALSE]

\* fetch() resolves with an ok response and resp.text() with the page: the
\* rest of check() runs to its end.  check() reads no field of the object
\* between the two awaits, so they are one step.
MonFetchOk(c, html) ==
  /\ c \in DOMAIN monChecks
  /\ LET r == monCompare(monitor, html)
         a == monSettle(r.m, monTimers, monChecks[c].initial)
     IN  /\ monitor' = a.m
         /\ monTimers' = a.timers
         /\ monOut' = r.out
         /\ monBaseGen' = IF r.set THEN monChecks[c].gen ELSE monBaseGen
  /\ monChecks' = Without(monChecks, c)
  /\ monStep' = [op |-> "fetchOk", check |-> monChecks[c], html |-> html]
  /\ UNCHANGED monGen
  /\ UNCHANGED <<schVars, engVars>>

(***************************************************************************)
(* Scheduler                                                               *)
(***************************************************************************)
\* history capacity (the maxHistory field, never assigned after construction)
maxHistory == 50

\* the cap of the page list, in [this.url, ...links].slice(0, 10)
MaxPagesPerRun == 10

\* this.history.slice(0, 20) in persist()
PersistedEntries == 20

\* options.intervalMs || 3600000
DefaultSchedulerInterval == 3600000

Min(a, b) == IF a < b THEN a ELSE b

Take(seq, n) == SubSeq(seq, 1, Min(n, Len(seq)))

InSeq(x, seq) == \E i \in 1..Len(seq) : seq[i] = x

RECURSIVE SumSeq(_)
SumSeq(ns) == IF Len(ns) = 0 THEN 0 ELSE Head(ns) + SumSeq(Tail(ns))

\* new URL(u) succeeds.
parseable(u) == u # Null /\ u # EmptyUrl /\ u # BadUrl

\* An anchor's href attribute.  kind "skip": empty, or starting with '#',
\* 'mailto:', 'tel:' or 'javascript:'; "invalid": new URL(href, base) throws;
\* "rel": resolved against the base; "abs": carries its own host.
AbsHref(host, path, query, frag) ==
  [kind |-> "abs", host |-> host, path |-> path, query |-> query, frag |-> frag]
RelHref(path, query, frag) ==
  [kind |-> "rel", path |-> path, query |-> query, frag |-> frag]
SkipHref == [kind |-> "skip"]
InvalidHref == [kind |-> "invalid"]

\* new URL(href, baseUrl)
resolveHref(href, base) ==
  Url(IF href.kind = "rel" THEN base.host ELSE href.host,
      href.path, href.query, href.frag)

\* full.origin + full.pathname : the parser's pathname is never empty
cleanUrl(full) == Url(full.host, IF full.path = "" THEN "/" ELSE full.path, "", "")

RECURSIVE discoverFrom(_, _, _, _)
discoverFrom(hrefs, i, baseUrl, seen) ==
  IF i > Len(hrefs) THEN seen
  ELSE LET href == hrefs[i]
           full == resolveHref(href, baseUrl)
           clean == cleanUrl(full)
           keep == /\ href.kind \notin {"skip", "invalid"}
                   /\ full.host = baseUrl.host
                   /\ clean # baseUrl
                   /\ ~InSeq(clean, seen)
       IN  discoverFrom(hrefs, i + 1, baseUrl,
                        IF keep THEN Append(seen, clean) ELSE seen)

\* discoverLinks(html, baseUrl)
discoverLinks(html, baseUrl) ==
  IF parseable(baseUrl) THEN discoverFrom(html.hrefs, 1, baseUrl, << >>) ELSE << >>

\* SEOEngine.audit(url, html): the result carries the url it was given; score
\* and issues are those the engine computes from the page.  src records the
\* URL the page was fetched from.
audit(url, html) ==
  [url |-> url, src |-> html.from, score |-> html.score, issues |-> html.issues,
   seoTags |-> [canonical |-> url]]

\* notify(state, data): the callbacks invoked.
schNotify(sch, state, data) ==
  IF sch.onStatusCallback
    THEN << [cb |-> "onStatus", state |-> state, data |-> data] >> ELSE << >>

\* Mutant: stop() forgets the handle without clearing the timer.
schStopEffect_leaksTimer(sch, timers) ==
  LET s1 == [sch EXCEPT !.timer = Null, !.active = FALSE]
  IN  [sch    |-> s1,
       timers |-> timers,
       out    |-> schNotify(s1, "stopped", [runs |-> s1.runCount])]

\* Mutant: stop() empties History.
schStopEffect_clearsHistory(sch, timers) ==
  LET s1 == [sch EXCEPT !.timer = Null, !.active = FALSE, !.history = << >>]
  IN  [sch    |-> s1,
       timers |-> IF sch.timer # Null THEN timers \ {sch.timer} ELSE timers,
       out    |-> schNotify(s1, "stopped", [runs |-> s1.runCount])]

\* stop() as a function of the object and the timer table.
schStopEffect(sch, timers) ==
  LET s1 == [sch EXCEPT !.timer = Null, !.active = FALSE]
  IN  [sch    |-> s1,
       timers |-> IF sch.timer # Null THEN timers \ {sch.timer} ELSE timers,
       out    |-> schNotify(s1, "stopped", [runs |-> s1.runCount])]

\* execute() up to its first await: the guard, the run id, the root fetch issued.
schExecuteBegin(sch, runs, gen) ==
  IF ~Truthy(sch.url)
    THEN [sch |-> sch, runs |-> runs, out |-> << >>, log |-> << >>]
    ELSE LET s1 == [sch EXCEPT !.runCount = @ + 1]
             id == CHOOSE n \in 1..(Cardinality(DOMAIN runs) + 1) : n \notin DOMAIN runs
         IN  [sch  |-> s1,
              runs |-> (id :> [runId |-> s1.runCount, pc |-> "root", i |-> 0,
                               fetching |-> s1.url, mainHtml |-> Null,
                               pagesToAudit |-> << >>, results |-> << >>,
                               gen |-> gen]) @@ runs,
              out  |-> schNotify(s1, "running", [run |-> s1.runCount, url |-> s1.url]),
              log  |-> << [op |-> "running", run |-> s1.runCount] >>]

\* Mutant: the mean is truncated.
roundDiv_truncates(sum, n) == sum \div n

\* Math.round of sum / n for a non-negative sum
roundDiv(sum, n) == (2 * sum + n) \div (2 * n)

countAction(issues, action) == Len(SelectSeq(issues, LAMBDA a : a = action))

\* The Run Entry execute() builds from the results of the run.
schEntry(sch, runId, results) ==
  LET n == Len(results)
  IN  [id |-> runId,
       url |-> sch.url,
       pages |-> results,
       pagesAudited |-> n,
       avgScore |-> IF n > 0
                      THEN roundDiv(SumSeq([k \in 1..n |-> results[k].score]), n)
                      ELSE 0,
       totalIssues |-> SumSeq([k \in 1..n |-> Len(results[k].issues)]),
       autoFixed |-> SumSeq([k \in 1..n |-> countAction(results[k].issues, "auto-fix")]),
       escalated |-> SumSeq([k \in 1..n |-> countAction(results[k].issues, "escalate")]),
       seoTags |-> IF n > 0 THEN results[1].seoTags ELSE Null]

\* Mutant: the oldest entry is never dropped.
pushHistory_noPop(history, entry) == << entry >> \o history

\* this.history.unshift(entry); if (this.history.length > this.maxHistory) this.history.pop()
pushHistory(history, entry) ==
  LET h == << entry >> \o history
  IN  IF Len(h) > maxHistory THEN SubSeq(h, 1, Len(h) - 1) ELSE h

\* Mutant: the page list is not capped.
buildPageList_uncapped(url, links) == << url >> \o links

\* [this.url, ...links].slice(0, 10)
buildPageList(url, links) == Take(<< url >> \o links, MaxPagesPerRun)

\* The item of the session store: absent (getItem returns null), or the
\* entries it holds.
NoStore == [present |-> FALSE, item |-> << >>]

Stored(entries) == [present |-> TRUE, item |-> entries]

\* persist(): the store keeps the first entries, unless setItem throws
persist(history, store, storeOk) ==
  IF storeOk THEN Stored(Take(history, PersistedEntries)) ELSE store

\* restore(): the history the object starts with
restore(store) == IF store.present THEN store.item ELSE << >>

\* Mutant: 'scheduled' is notified before the entry is in History.
schFinish_scheduledFirst(sch, store, run, out, storeOk) ==
  LET entry == schEntry(sch, run.runId, run.results)
      s1    == [sch EXCEPT !.history = pushHistory(@, entry)]
  IN  [sch   |-> s1,
       store |-> persist(s1.history, store, storeOk),
       out   |-> out \o schNotify(sch, "scheduled", [lastScore |-> entry.avgScore])
                    \o schNotify(s1, "completed", entry)
                    \o (IF s1.onRunCallback
                          THEN << [cb |-> "onRun", data |-> entry] >> ELSE << >>),
       log   |-> << [op |-> "scheduled", run |-> run.runId],
                    [op |-> "unshift", run |-> run.runId],
                    [op |-> "persist", run |-> run.runId],
                    [op |-> "completed", run |-> run.runId] >>
                    \o (IF s1.onRunCallback
                          THEN << [op |-> "onRun", run |-> run.runId] >> ELSE << >>)]

\* execute() after its page loop: the entry, the history, the store, the callbacks.
schFinish(sch, store, run, out, storeOk) ==
  LET entry == schEntry(sch, run.runId, run.results)
      s1    == [sch EXCEPT !.history = pushHistory(@, entry)]
  IN  [sch   |-> s1,
       store |-> persist(s1.history, store, storeOk),
       out   |-> out \o schNotify(s1, "completed", entry)
                    \o (IF s1.onRunCallback
                          THEN << [cb |-> "onRun", data |-> entry] >> ELSE << >>)
                    \o schNotify(s1, "scheduled", [lastScore |-> entry.avgScore]),
       log   |-> << [op |-> "unshift", run |-> run.runId],
                    [op |-> "persist", run |-> run.runId],
                    [op |-> "completed", run |-> run.runId] >>
                    \o (IF s1.onRunCallback
                          THEN << [op |-> "onRun", run |-> run.runId] >> ELSE << >>)
                    \o << [op |-> "scheduled", run |-> run.runId] >>]

\* The page loop of execute() from index i (1-based) on, up to the next await
\* of a page fetch or to the end of the list.
RECURSIVE schLoop(_, _, _, _)
schLoop(sch, run, i, out) ==
  IF i > Len(run.pagesToAudit)
    THEN [suspended |-> FALSE, run |-> run, out |-> out]
    ELSE LET pageUrl == run.pagesToAudit[i]
             o1 == out \o schNotify(sch, "progress", [run |-> run.runId, page |-> i])
         IN  IF pageUrl = sch.url
               THEN schLoop(sch,
                            [run EXCEPT !.results = Append(@, audit(pageUrl, run.mainHtml))],
                            i + 1, o1)
               ELSE [suspended |-> TRUE,
                     run |-> [run EXCEPT !.pc = "page", !.i = i, !.fetching = pageUrl],
                     out |-> o1]

SchInit(stores) ==
  /\ schStore \in stores
  /\ scheduler = [active |-> FALSE, timer |-> Null,
                  intervalMs |-> DefaultSchedulerInterval, url |-> Null,
                  runCount |-> 0, history |-> restore(schStore),
                  onRunCallback |-> FALSE, onStatusCallback |-> FALSE]
  /\ schTimers = {}
  /\ schRuns = << >>
  /\ schGen = 0
  /\ schOut = << >>
  /\ schStep = [op |-> "init"]
  /\ schLog = << >>

\* start(url, options)
SchStart(url, intervalMs, onRun, onStatus) ==
  LET s  == IF scheduler.active
              THEN schStopEffect(scheduler, schTimers)
              ELSE [sch |-> scheduler, timers |-> schTimers, out |-> << >>]
      s1 == [s.sch EXCEPT !.url = url, !.active = TRUE,
                          !.intervalMs = IF intervalMs # 0 THEN intervalMs
                                         ELSE DefaultSchedulerInterval,
                          !.onRunCallback = onRun,
                          !.onStatusCallback = onStatus]
      o1 == s.out \o schNotify(s1, "started", [url |-> url])
      e  == schExecuteBegin(s1, schRuns, schGen + 1)
      t  == FreshTimer(s.timers)
  IN  /\ scheduler' = [e.sch EXCEPT !.timer = t]
      /\ schTimers' = s.timers \cup {t}
      /\ schRuns' = e.runs
      /\ schOut' = o1 \o e.out
      /\ schLog' = e.log
      /\ schGen' = schGen + 1
      /\ schStep' = [op |-> "start", url |-> url, intervalMs |-> intervalMs]
      /\ UNCHANGED schStore
      /\ UNCHANGED <<monVars, engVars>>

\* stop()
SchStop ==
  LET s == schStopEffect(scheduler, schTimers)
  IN  /\ scheduler' = s.sch
      /\ schTimers' = s.timers
      /\ schOut' = s.out
      /\ schLog' = << >>
      /\ schStep' = [op |-> "stop"]
      /\ UNCHANGED <<schRuns, schStore, schGen>>
      /\ UNCHANGED <<monVars, engVars>>

\* A tick of an armed interval timer: () => this.execute()
SchTick(t) ==
  /\ t \in schTimers
  /\ LET e == schExecuteBegin(scheduler, schRuns, schGen)
     IN  /\ scheduler' = e.sch
         /\ schRuns' = e.runs
         /\ schOut' = e.out
         /\ schLog' = e.log
  /\ schStep' = [op |-> "tick"]
  /\ UNCHANGED <<schTimers, schStore, schGen>>
  /\ UNCHANGED <<monVars, engVars>>

\* The run goes on after an await: either to the next page fetch, or to its end.
schResume(r, l, storeOk) ==
  IF l.suspended
    THEN /\ schRuns' = [schRuns EXCEPT ![r] = l.run]
         /\ schOut' = l.out
         /\ schLog' = << >>
         /\ UNCHANGED <<scheduler, schStore>>
    ELSE LET f == schFinish(scheduler, schStore, l.run, l.out, storeOk)
         IN  /\ schRuns' = Without(schRuns, r)
             /\ scheduler' = f.sch
             /\ schStore' = f.store
             /\ schOut' = f.out
             /\ schLog' = f.log

\* fetchPage(this.url) resolves with the root page: links are discovered, the
\* page list is built and the loop runs up to the first page fetch.
SchRootOk(r, page, storeOk) ==
  /\ r \in DOMAIN schRuns
  /\ schRuns[r].pc = "root"
  /\ LET mainHtml == [page EXCEPT !.from = schRuns[r].fetching]
         links == discoverLinks(mainHtml, scheduler.url)
         o1 == schNotify(scheduler, "progress",
                         [run |-> schRuns[r].runId, discovered |-> Len(links)])
         pagesToAudit == buildPageList(scheduler.url, links)
         run1 == [schRuns[r] EXCEPT !.mainHtml = mainHtml,
                                    !.pagesToAudit = pagesToAudit]
     IN  schResume(r, schLoop(scheduler, run1, 1, o1), storeOk)
  /\ schStep' = [op |-> "rootOk", run |-> schRuns[r]]
  /\ UNCHANGED <<schTimers, schGen>>
  /\ UNCHANGED <<monVars, engVars>>

\* Mutant: a failed run stops the scheduler.
schCatch_stops(sch, timers, runId) ==
  LET s == schStopEffect(sch, timers)
  IN  [sch |-> s.sch, timers |-> s.timers,
       out |-> schNotify(sch, "error", [run |-> runId])]

\* The catch block of execute(): the object and the timers after it, and the
\* callbacks invoked.
schCatch(sch, timers, runId) ==
  [sch |-> sch, timers |-> timers, out |-> schNotify(sch, "error", [run |-> runId])]

\* fetchPage(this.url) resolves with null: the throw and the catch block
SchRootFail(r) ==
  /\ r \in DOMAIN schRuns
  /\ schRuns[r].pc = "root"
  /\ LET e == schCatch(scheduler, schTimers, schRuns[r].runId)
     IN  /\ scheduler' = e.sch
         /\ schTimers' = e.timers
         /\ schOut' = e.out
  /\ schLog' = << [op |-> "error", run |-> schRuns[r].runId] >>
  /\ schRuns' = Without(schRuns, r)
  /\ schStep' = [op |-> "rootFail", run |-> schRuns[r]]
  /\ UNCHANGED <<schStore, schGen>>
  /\ UNCHANGED <<monVars, engVars>>

\* fetchPage(pageUrl) resolves with a page: it is audited and the loop goes on
SchPageOk(r, page, storeOk) ==
  /\ r \in DOMAIN schRuns
  /\ schRuns[r].pc = "page"
  /\ LET run  == schRuns[r]
         html == [page EXCEPT !.from = run.fetching]
         run1 == [run EXCEPT !.results = Append(@, audit(run.pagesToAudit[run.i], html))]
     IN  schResume(r, schLoop(scheduler, run1, run.i + 1, << >>), storeOk)
  /\ schStep' = [op |-> "pageOk", run |-> schRuns[r]]
  /\ UNCHANGED <<schTimers, schGen>>
  /\ UNCHANGED <<monVars, engVars>>

\* fetchPage(pageUrl) resolves with null: the page is left out and the loop goes on
SchPageFail(r, storeOk) ==
  /\ r \in DOMAIN schRuns
  /\ schRuns[r].pc = "page"
  /\ schResume(r, schLoop(scheduler, schRuns[r], schRuns[r].i + 1, << >>), storeOk)
  /\ schStep' = [op |-> "pageFail", run |-> schRuns[r]]
  /\ UNCHANGED <<schTimers, schGen>>
  /\ UNCHANGED <<monVars, engVars>>

\* fetchPage(pageUrl) resolves with the text of a response whose body is empty:
\* '' is falsy, so "if (html)" leaves the page out as it does for null
SchPageEmpty(r, storeOk) ==
  /\ r \in DOMAIN schRuns
  /\ schRuns[r].pc = "page"
  /\ schResume(r, schLoop(scheduler, schRuns[r], schRuns[r].i + 1, << >>), storeOk)
  /\ schStep' = [op |-> "pageEmpty", run |-> schRuns[r]]
  /\ UNCHANGED <<schTimers, schGen>>
  /\ UNCHANGED <<monVars, engVars>>

(***************************************************************************)
(* SEOEngine (src/js/engine.js): pure functions of a page snapshot         *)
(***************************************************************************)
\* No function of the engine is under examination.
EngIdle == engine = [op |-> "idle"]

Severities == {"critical", "warning", "info"}

Max(a, b) == IF a > b THEN a ELSE b

scoreStep(score, issue) ==
  IF issue.severity = "critical" THEN score - 15
  ELSE IF issue.severity = "warning" THEN score - 8
  ELSE score - 3

RECURSIVE scoreLoop(_, _, _)
scoreLoop(issues, i, score) ==
  IF i > Len(issues) THEN score
  ELSE scoreLoop(issues, i + 1, scoreStep(score, issues[i]))

\* Mutant: the score is not clamped.
calcScore_noClamp(issues) == scoreLoop(issues, 1, 100)

\* calcScore(issues)
calcScore(issues) == Max(0, Min(100, scoreLoop(issues, 1, 100)))

\* A page snapshot, as extractMeta returns it: the strings are '' and the
\* lists are empty when the page has no such element.  A heading is
\* [level, text], an image is [src, alt].
EmptyMeta ==
  [title |-> "", description |-> "", canonical |-> "",
   ogTitle |-> "", ogDesc |-> "", ogImage |-> "", twCard |-> "",
   h1s |-> << >>, h2s |-> << >>, allHeadings |-> << >>, images |-> << >>,
   wordCount |-> 0, internalLinks |-> << >>, schema |-> << >>, bodyText |-> ""]

\* Mutant: the counter of the issues is not advanced.
pushIssue_sameId(st, rule, severity, action) ==
  [issues |-> Append(st.issues, [id |-> st.id, rule |-> rule,
                                 severity |-> severity, action |-> action]),
   id |-> st.id]

\* issues.push({id: id++, rule, severity, action, ...}): the list and the
\* counter after it.  The texts of an issue (element, current, suggested,
\* reason) are left out.
pushIssue(st, rule, severity, action) ==
  [issues |-> Append(st.issues, [id |-> st.id, rule |-> rule,
                                 severity |-> severity, action |-> action]),
   id |-> st.id + 1]

\* Mutant: a title of exactly 60 characters is too long.
checkTitle_from60(st, meta) ==
  IF meta.title = "" THEN pushIssue(st, "Missing Meta Title", "critical", "auto-fix")
  ELSE IF Len(meta.title) >= 60
    THEN pushIssue(st, "Meta Title Too Long", "warning", "auto-fix")
  ELSE IF Len(meta.title) < 30 /\ Len(meta.title) > 0
    THEN pushIssue(st, "Meta Title Too Short", "warning", "auto-fix")
  ELSE st

\* Rules 1 and 2
checkTitle(st, meta) ==
  IF meta.title = "" THEN pushIssue(st, "Missing Meta Title", "critical", "auto-fix")
  ELSE IF Len(meta.title) > 60
    THEN pushIssue(st, "Meta Title Too Long", "warning", "auto-fix")
  ELSE IF Len(meta.title) < 30 /\ Len(meta.title) > 0
    THEN pushIssue(st, "Meta Title Too Short", "warning", "auto-fix")
  ELSE st

\* Mutant: a description of exactly 70 characters is too short.
checkDescription_upTo70(st, meta) ==
  IF meta.description = ""
    THEN pushIssue(st, "Missing Meta Description", "critical", "auto-fix")
  ELSE IF Len(meta.description) > 160
    THEN pushIssue(st, "Meta Description Too Long", "warning", "auto-fix")
  ELSE IF Len(meta.description) <= 70 /\ Len(meta.description) > 0
    THEN pushIssue(st, "Meta Description Too Short", "warning", "auto-fix")
  ELSE st

\* Rules 3 and 4
checkDescription(st, meta) ==
  IF meta.description = ""
    THEN pushIssue(st, "Missing Meta Description", "critical", "auto-fix")
  ELSE IF Len(meta.description) > 160
    THEN pushIssue(st, "Meta Description Too Long", "warning", "auto-fix")
  ELSE IF Len(meta.description) < 70 /\ Len(meta.description) > 0
    THEN pushIssue(st, "Meta Description Too Short", "warning", "auto-fix")
  ELSE st

\* Rule 5
checkH1(st, meta) ==
  IF Len(meta.h1s) = 0 THEN pushIssue(st, "Missing H1 Tag", "critical", "escalate")
  ELSE IF Len(meta.h1s) > 1 THEN pushIssue(st, "Multiple H1 Tags", "critical", "escalate")
  ELSE st

\* Mutant: an issue at every heading that skips a level.
RECURSIVE checkHierarchy_everySkip(_, _)
checkHierarchy_everySkip(st, meta) ==
  LET n == Len(meta.allHeadings)
  IN  IF n < 2 THEN st
      ELSE LET before == checkHierarchy_everySkip(
                           st, [meta EXCEPT !.allHeadings = SubSeq(meta.allHeadings, 1, n - 1)])
           IN  IF meta.allHeadings[n].level - meta.allHeadings[n - 1].level > 1
                 THEN pushIssue(before, "Broken Heading Hierarchy", "warning", "escalate")
                 ELSE before

\* Rule 6: one issue at the first heading that skips a level
checkHierarchy(st, meta) ==
  IF /\ Len(meta.allHeadings) > 1
     /\ \E i \in 2..Len(meta.allHeadings) :
          meta.allHeadings[i].level - meta.allHeadings[i - 1].level > 1
    THEN pushIssue(st, "Broken Heading Hierarchy", "warning", "escalate")
    ELSE st

\* Rule 7
checkAlt(st, meta) ==
  IF Len(SelectSeq(meta.images, LAMBDA img : img.alt = "")) > 0
    THEN pushIssue(st, "Images Missing Alt Text", "warning", "auto-fix")
    ELSE st

\* Rule 8
checkOpenGraph(st, meta) ==
  IF meta.ogTitle = "" \/ meta.ogDesc = ""
    THEN pushIssue(st, "Missing Open Graph Tags", "warning", "auto-fix")
    ELSE st

\* Rule 9
checkCanonical(st, meta) ==
  IF meta.canonical = ""
    THEN pushIssue(st, "Missing Canonical URL", "info", "auto-fix")
    ELSE st

\* Mutant: thin content is not reported.
checkThin_never(st, meta) == st

\* Rule 10
checkThin(st, meta) ==
  IF meta.wordCount < 300
    THEN pushIssue(st, "Thin Content", "warning", "escalate")
    ELSE st

\* Rule 11
checkSchema(st, meta) ==
  IF Len(meta.schema) = 0
    THEN pushIssue(st, "Missing Structured Data (Schema)", "info", "auto-fix")
    ELSE st

\* The bonus rule
checkTwitter(st, meta) ==
  IF meta.twCard = ""
    THEN pushIssue(st, "Missing Twitter Card Tags", "info", "auto-fix")
    ELSE st

\* runChecks(meta, url)
runChecks(meta, url) ==
  LET s0  == [issues |-> << >>, id |-> 0]
      s1  == checkTitle(s0, meta)
      s2  == checkDescription(s1, meta)
      s3  == checkH1(s2, meta)
      s4  == checkHierarchy(s3, meta)
      s5  == checkAlt(s4, meta)
      s6  == checkOpenGraph(s5, meta)
      s7  == checkCanonical(s6, meta)
      s8  == checkThin(s7, meta)
      s9  == checkSchema(s8, meta)
      s10 == checkTwitter(s9, meta)
  IN  s10.issues

(***************************************************************************)
(* Strings, as the engine's text functions use them                        *)
(***************************************************************************)
charAt(s, i) == SubSeq(s, i, i)

LowerChars == "abcdefghijklmnopqrstuvwxyz"
UpperChars == "ABCDEFGHIJKLMNOPQRSTUVWXYZ"
DigitChars == "0123456789"

\* The character U+2014 of the generated titles, one UTF-16 unit that is not a
\* word character; it is written ~ here.
EmDash == "~"

\* The position of a character in an alphabet, 0 when it is not in it.
indexOf(c, alphabet) ==
  IF \E i \in 1..Len(alphabet) : charAt(alphabet, i) = c
    THEN CHOOSE i \in 1..Len(alphabet) : charAt(alphabet, i) = c
    ELSE 0

isLower(c) == indexOf(c, LowerChars) > 0
isUpper(c) == indexOf(c, UpperChars) > 0
isDigit(c) == indexOf(c, DigitChars) > 0

\* \w and \s of the regular expressions (of \s: space, tab, line feed)
isWordChar(c) == isLower(c) \/ isUpper(c) \/ isDigit(c) \/ c = "_"
isSpace(c) == c \in {" ", "\t", "\n"}

toUpperChar(c) ==
  LET k == indexOf(c, LowerChars) IN IF k > 0 THEN charAt(UpperChars, k) ELSE c

toLowerChar(c) ==
  LET k == indexOf(c, UpperChars) IN IF k > 0 THEN charAt(LowerChars, k) ELSE c

\* The two halves of a string of two characters or more.
leftHalf(s) == SubSeq(s, 1, Len(s) \div 2)
rightHalf(s) == SubSeq(s, Len(s) \div 2 + 1, Len(s))

\* text.toLowerCase()
RECURSIVE toLowerCase(_)
toLowerCase(s) ==
  IF Len(s) = 0 THEN ""
  ELSE IF Len(s) = 1 THEN toLowerChar(s)
  ELSE toLowerCase(leftHalf(s)) \o toLowerCase(rightHalf(s))

\* .replace(/[^a-z0-9\s'-]/g, ' ')
RECURSIVE keywordClean(_)
keywordClean(s) ==
  IF Len(s) = 0 THEN ""
  ELSE IF Len(s) = 1
    THEN IF isLower(s) \/ isDigit(s) \/ isSpace(s) \/ s \in {"'", "-"} THEN s ELSE " "
  ELSE keywordClean(leftHalf(s)) \o keywordClean(rightHalf(s))

\* .replace(/[^a-z0-9\s]/g, ' ')
RECURSIVE phraseClean(_)
phraseClean(s) ==
  IF Len(s) = 0 THEN ""
  ELSE IF Len(s) = 1
    THEN IF isLower(s) \/ isDigit(s) \/ isSpace(s) THEN s ELSE " "
  ELSE phraseClean(leftHalf(s)) \o phraseClean(rightHalf(s))

\* .split(/\s+/): the pieces between the runs of white space; the first and
\* the last piece are '' when the string begins or ends with white space.
RECURSIVE splitSpaces(_)
splitSpaces(s) ==
  IF Len(s) = 0 THEN << "" >>
  ELSE IF Len(s) = 1 THEN (IF isSpace(s) THEN << "", "" >> ELSE << s >>)
  ELSE LET L   == splitSpaces(leftHalf(s))
           R   == splitSpaces(rightHalf(s))
           mid == L[Len(L)] \o R[1]
       IN  SubSeq(L, 1, Len(L) - 1)
             \o (IF mid = "" THEN << >> ELSE << mid >>)
             \o Tail(R)

\* The elements of a list without repetition, in the order of their first
\* occurrence: the keys of an object filled in the order of the list.
RECURSIVE firstSeen(_, _, _)
firstSeen(ws, i, acc) ==
  IF i > Len(ws) THEN acc
  ELSE firstSeen(ws, i + 1, IF InSeq(ws[i], acc) THEN acc ELSE Append(acc, ws[i]))

occurrences(ws, w) == Len(SelectSeq(ws, LAMBDA x : x = w))

\* A key that is an array index (digits without a leading zero): Object.entries
\* lists such keys first, in ascending order, and the other keys after them in
\* the order of their insertion.  Keys of more than 9 digits are taken as
\* ordinary keys.
isIndexKey(w) ==
  /\ Len(w) \in 1..9
  /\ \A i \in 1..Len(w) : isDigit(charAt(w, i))
  /\ (Len(w) > 1 => charAt(w, 1) # "0")

RECURSIVE digitsValue(_)
digitsValue(w) ==
  IF Len(w) = 0 THEN 0
  ELSE 10 * digitsValue(SubSeq(w, 1, Len(w) - 1)) + (indexOf(charAt(w, Len(w)), DigitChars) - 1)

\* The list with x put in, after every element whose score is not smaller
\* than that of x (sort by descending score, equal scores keeping their order).
RECURSIVE insertDesc(_, _, _, _)
insertDesc(sorted, x, score, i) ==
  IF i > Len(sorted) THEN Append(sorted, x)
  ELSE IF score[sorted[i]] < score[x]
    THEN SubSeq(sorted, 1, i - 1) \o << x >> \o SubSeq(sorted, i, Len(sorted))
  ELSE insertDesc(sorted, x, score, i + 1)

RECURSIVE sortDesc(_, _, _, _)
sortDesc(xs, score, i, acc) ==
  IF i > Len(xs) THEN acc
  ELSE sortDesc(xs, score, i + 1, insertDesc(acc, xs[i], score, 1))

\* Object.entries(obj) of an object whose keys were inserted in this order
objectKeys(inserted) ==
  LET idx   == SelectSeq(inserted, isIndexKey)
      other == SelectSeq(inserted, LAMBDA w : ~isIndexKey(w))
      asc   == sortDesc(idx, [w \in {idx[k] : k \in 1..Len(idx)} |-> 0 - digitsValue(w)],
                        1, << >>)
  IN  asc \o other

StopWords ==
  {"the", "a", "an", "and", "or", "but", "in", "on", "at", "to", "for",
   "of", "with", "by", "from", "as", "is", "was", "are", "were", "been",
   "be", "have", "has", "had", "do", "does", "did", "will", "would",
   "could", "should", "may", "might", "shall", "can", "this", "that",
   "these", "those", "it", "its", "i", "you", "he", "she", "we", "they",
   "me", "him", "her", "us", "them", "my", "your", "his", "our", "their",
   "what", "which", "who", "whom", "where", "when", "how", "not", "no",
   "nor", "if", "then", "than", "too", "very", "just", "about", "above",
   "after", "again", "all", "also", "am", "any", "because", "before",
   "between", "both", "each", "few", "get", "here", "into", "more", "most",
   "other", "out", "over", "own", "same", "so", "some", "such", "up",
   "only", "now", "new", "one", "two", "like", "make", "many", "well",
   "back", "even", "give", "good", "know", "look", "see", "take", "come",
   "could", "find", "first", "go", "great", "here", "high", "last", "long",
   "look", "made", "much", "need", "never", "next", "old", "part", "place",
   "point", "right", "show", "still", "tell", "thing", "think", "three",
   "through", "under", "us", "use", "way", "work", "world", "year",
   "click", "read", "learn", "best", "top", "buy", "free", "www", "http",
   "https", "html", "com", "org", "net"}

\* extractKeywords(text, count).  The score cnt * (1 + length * 0.1) is
\* compared as cnt * (10 + length).
\* Mutant: the stop list is not applied.
extractKeywords_keepsStopWords(text, count) ==
  LET words == SelectSeq(splitSpaces(keywordClean(toLowerCase(text))),
                         LAMBDA w : Len(w) > 2)
      keys  == objectKeys(firstSeen(words, 1, << >>))
      score == [w \in {keys[k] : k \in 1..Len(keys)} |->
                  occurrences(words, w) * (10 + Len(w))]
  IN  Take(sortDesc(keys, score, 1, << >>), count)

extractKeywords(text, count) ==
  LET words == SelectSeq(splitSpaces(keywordClean(toLowerCase(text))),
                         LAMBDA w : Len(w) > 2 /\ w \notin StopWords)
      keys  == objectKeys(firstSeen(words, 1, << >>))
      score == [w \in {keys[k] : k \in 1..Len(keys)} |->
                  occurrences(words, w) * (10 + Len(w))]
  IN  Take(sortDesc(keys, score, 1, << >>), count)

\* extractPhrases(text, count)
extractPhrases(text, count) ==
  LET words   == SelectSeq(splitSpaces(phraseClean(toLowerCase(text))),
                           LAMBDA w : Len(w) > 2)
      pairs   == SelectSeq([i \in 1..(Len(words) - 1) |-> words[i] \o " " \o words[i + 1]],
                           LAMBDA p : Len(p) > 7)
      keys    == objectKeys(firstSeen(pairs, 1, << >>))
      cnt     == [p \in {keys[k] : k \in 1..Len(keys)} |-> occurrences(pairs, p)]
      twice   == SelectSeq(keys, LAMBDA p : cnt[p] > 1)
  IN  Take(sortDesc(twice, cnt, 1, << >>), count)

\* titleCase(str): str.replace(/\b\w/g, c => c.toUpperCase())
RECURSIVE titleCaseRange(_, _, _)
titleCaseRange(s, lo, hi) ==
  IF lo > hi THEN ""
  ELSE IF lo = hi
    THEN IF isWordChar(charAt(s, lo)) /\ (lo = 1 \/ ~isWordChar(charAt(s, lo - 1)))
           THEN toUpperChar(charAt(s, lo)) ELSE charAt(s, lo)
  ELSE LET m == (lo + hi) \div 2
       IN  titleCaseRange(s, lo, m) \o titleCaseRange(s, m + 1, hi)

titleCase(str) == titleCaseRange(str, 1, Len(str))

\* capitalize(s)
capitalize(s) ==
  IF Len(s) = 0 THEN "" ELSE toUpperChar(charAt(s, 1)) \o SubSeq(s, 2, Len(s))

\* The text of the string the URL parser rejects.
BadUrlText == "not a url"

\* domain(url): the host name, or for a string that is not a URL what is left
\* of it before the first slash ('website' when nothing is)
domain(url) ==
  IF parseable(url) THEN url.host
  ELSE IF url = BadUrl THEN BadUrlText
  ELSE "website"

\* domain.replace(/\.[a-z]+$/, '')
stripTld(d) ==
  LET dots == {i \in 1..Len(d) : charAt(d, i) = "."}
  IN  IF dots = {} THEN d
      ELSE LET last == CHOOSE i \in dots : \A j \in dots : j <= i
           IN  IF last < Len(d) /\ \A j \in (last + 1)..Len(d) : isLower(charAt(d, j))
                 THEN SubSeq(d, 1, last - 1)
                 ELSE d

\* Mutant: a title that is not reused is extended by the domain name.
generateTitle_extendsTitle(meta, url) ==
  LET name == capitalize(stripTld(domain(url)))
  IN  IF meta.title # "" /\ Len(meta.title) >= 30 /\ Len(meta.title) <= 60
        THEN meta.title
        ELSE meta.title \o " | " \o name

\* Mutant: the keywords are tried before the phrases.
generateTitle_keywordsFirst(meta, url) ==
  LET name     == capitalize(stripTld(domain(url)))
      h1       == IF Len(meta.h1s) > 0 THEN meta.h1s[1] ELSE ""
      keywords == extractKeywords(meta.bodyText, 5)
      phrases  == extractPhrases(meta.bodyText, 3)
  IN  IF meta.title # "" /\ Len(meta.title) >= 30 /\ Len(meta.title) <= 60
        THEN meta.title
      ELSE IF h1 # "" /\ Len(h1) >= 15 /\ Len(h1) <= 50
        THEN h1 \o " | " \o name
      ELSE IF Len(keywords) >= 3
        THEN titleCase(keywords[1] \o " " \o keywords[2] \o " " \o keywords[3])
               \o " " \o EmDash \o " " \o name
      ELSE IF Len(phrases) > 0
        THEN LET phrase == titleCase(phrases[1])
                 kw == IF Len(keywords) > 1
                         THEN " " \o EmDash \o " " \o titleCase(keywords[1])
                                \o " & " \o titleCase(keywords[2])
                         ELSE ""
                 title == phrase \o kw
             IN  IF Len(title) <= 58 THEN title \o " | " \o name
                 ELSE SubSeq(title, 1, 57) \o "..."
      ELSE name \o " " \o EmDash \o " Your Trusted Source"

\* generateTitle(meta, url)
generateTitle(meta, url) ==
  LET name     == capitalize(stripTld(domain(url)))
      h1       == IF Len(meta.h1s) > 0 THEN meta.h1s[1] ELSE ""
      keywords == extractKeywords(meta.bodyText, 5)
      phrases  == extractPhrases(meta.bodyText, 3)
  IN  IF meta.title # "" /\ Len(meta.title) >= 30 /\ Len(meta.title) <= 60
        THEN meta.title
      ELSE IF h1 # "" /\ Len(h1) >= 15 /\ Len(h1) <= 50
        THEN h1 \o " | " \o name
      ELSE IF Len(phrases) > 0
        THEN LET phrase == titleCase(phrases[1])
                 kw == IF Len(keywords) > 1
                         THEN " " \o EmDash \o " " \o titleCase(keywords[1])
                                \o " & " \o titleCase(keywords[2])
                         ELSE ""
                 title == phrase \o kw
             IN  IF Len(title) <= 58 THEN title \o " | " \o name
                 ELSE SubSeq(title, 1, 57) \o "..."
      ELSE IF Len(keywords) >= 3
        THEN titleCase(keywords[1] \o " " \o keywords[2] \o " " \o keywords[3])
               \o " " \o EmDash \o " " \o name
      ELSE name \o " " \o EmDash \o " Your Trusted Source"

\* list.join(sep)
RECURSIVE join(_, _)
join(list, sep) ==
  IF Len(list) = 0 THEN ""
  ELSE IF Len(list) = 1 THEN list[1]
  ELSE list[1] \o sep \o join(Tail(list), sep)

\* .replace(/\s+/g, ' '): every run of white space becomes one space
RECURSIVE collapseSpaces(_)
collapseSpaces(s) ==
  IF Len(s) = 0 THEN ""
  ELSE IF Len(s) = 1 THEN (IF isSpace(s) THEN " " ELSE s)
  ELSE LET L == collapseSpaces(leftHalf(s))
           R == collapseSpaces(rightHalf(s))
       IN  IF charAt(L, Len(L)) = " " /\ charAt(R, 1) = " "
             THEN L \o SubSeq(R, 2, Len(R))
             ELSE L \o R

isStop(c) == c \in {".", "!", "?"}

\* .split(/[.!?]+/): the pieces between the runs of sentence marks; the
\* first and the last piece are '' when the string begins or ends with one.
RECURSIVE splitSentences(_)
splitSentences(s) ==
  IF Len(s) = 0 THEN << "" >>
  ELSE IF Len(s) = 1 THEN (IF isStop(s) THEN << "", "" >> ELSE << s >>)
  ELSE LET L == splitSentences(leftHalf(s))
           R == splitSentences(rightHalf(s))
           leftOpen  == ~isStop(charAt(s, Len(s) \div 2))
           rightOpen == ~isStop(charAt(s, Len(s) \div 2 + 1))
       IN  IF leftOpen \/ rightOpen
             THEN SubSeq(L, 1, Len(L) - 1) \o << L[Len(L)] \o R[1] >> \o Tail(R)
             ELSE SubSeq(L, 1, Len(L) - 1) \o Tail(R)

\* s.trim()
trim(s) ==
  LET solid == {i \in 1..Len(s) : ~isSpace(charAt(s, i))}
  IN  IF solid = {} THEN ""
      ELSE SubSeq(s, CHOOSE i \in solid : \A j \in solid : i <= j,
                     CHOOSE i \in solid : \A j \in solid : j <= i)

\* hay.includes(needle)
includes(hay, needle) ==
  \E i \in 1..(Len(hay) - Len(needle) + 1) : SubSeq(hay, i, i + Len(needle) - 1) = needle

\* The number of the keywords a sentence contains, in lower case.
sentenceScore(sent, keywords) ==
  LET lower == toLowerCase(sent)
  IN  Len(SelectSeq(keywords, LAMBDA kw : includes(lower, kw)))

\* The loop that keeps the first sentence of the highest score above 0.
RECURSIVE bestSentenceLoop(_, _, _, _, _)
bestSentenceLoop(sentences, keywords, i, bestSentence, bestScore) ==
  IF i > Len(sentences) THEN bestSentence
  ELSE LET score == sentenceScore(sentences[i], keywords)
       IN  IF score > bestScore
             THEN bestSentenceLoop(sentences, keywords, i + 1, sentences[i], score)
             ELSE bestSentenceLoop(sentences, keywords, i + 1, bestSentence, bestScore)

DescriptionPadding == " Visit us today for comprehensive information and resources."

\* The description generateDescription composes, before its length is
\* brought between 70 and 160.
composeDescription(meta, url) ==
  LET keywords  == extractKeywords(meta.bodyText, 6)
      phrases   == extractPhrases(meta.bodyText, 3)
      pieces    == splitSentences(collapseSpaces(meta.bodyText))
      sentences == SelectSeq([k \in 1..Len(pieces) |-> trim(pieces[k])],
                             LAMBDA t : Len(t) > 20 /\ Len(t) < 120)
      bestSentence == bestSentenceLoop(sentences, keywords, 1, "", 0)
  IN  IF bestSentence # ""
        THEN IF Len(bestSentence) < 110 /\ Len(keywords) > 2
               THEN bestSentence \o ". Discover " \o join(Take(keywords, 3), ", ")
                      \o " and more."
               ELSE bestSentence
      ELSE IF Len(phrases) > 0
        THEN "Explore " \o join(Take(phrases, 2), ", ") \o ". "
               \o (IF Len(keywords) > 2
                     THEN "Learn about " \o join(Take(keywords, 4), ", ") \o "."
                     ELSE "")
      ELSE "Discover everything about " \o domain(url) \o "."
             \o (IF Len(keywords) > 0
                   THEN " Learn about " \o join(keywords, ", ") \o "."
                   ELSE "")

reusableDescription(meta) ==
  meta.description # "" /\ Len(meta.description) >= 70 /\ Len(meta.description) <= 160

\* Mutant: a short description is not padded.
generateDescription_unpadded(meta, url) ==
  IF reusableDescription(meta) THEN meta.description
  ELSE LET desc == composeDescription(meta, url)
       IN  IF Len(desc) > 160 THEN SubSeq(desc, 1, 157) \o "..." ELSE desc

\* generateDescription(meta, url)
generateDescription(meta, url) ==
  IF reusableDescription(meta) THEN meta.description
  ELSE LET desc  == composeDescription(meta, url)
           short == IF Len(desc) > 160 THEN SubSeq(desc, 1, 157) \o "..." ELSE desc
       IN  IF Len(short) < 70 THEN short \o DescriptionPadding ELSE short

\* generateRankingTips(meta, keywords): the tips in the order they are
\* pushed, each with its priority, its subject and the keywords it quotes.
pushTip(tips, priority, about, quoted) ==
  Append(tips, [priority |-> priority, about |-> about, keywords |-> quoted])

generateRankingTips(meta, keywords) ==
  LET first == IF Len(keywords) > 0 THEN << keywords[1] >> ELSE << >>
      t1 == IF meta.wordCount < 300
              THEN pushTip(<< >>, "high", "thin content", Take(keywords, 4))
              ELSE IF meta.wordCount < 800
                     THEN pushTip(<< >>, "medium", "content length", << >>)
                     ELSE << >>
      t2 == IF Len(meta.h1s) = 0
              THEN pushTip(t1, "high", "missing h1", first) ELSE t1
      t3 == IF Len(meta.h2s) = 0 /\ meta.wordCount > 200
              THEN pushTip(t2, "medium", "no h2", Take(keywords, 3)) ELSE t2
      t4 == IF Len(meta.internalLinks) < 3
              THEN pushTip(t3, "medium", "internal links", << >>) ELSE t3
      imgNoAlt == Len(SelectSeq(meta.images, LAMBDA img : img.alt = ""))
      t5 == IF imgNoAlt > 0
              THEN pushTip(t4, "medium", "image alt", first) ELSE t4
  IN  IF Len(keywords) > 0
        THEN pushTip(t5, "info", "top keywords", Take(keywords, 5)) ELSE t5

(***************************************************************************)
(* Specification of the monitor                                            *)
(***************************************************************************)
MaxMonStarts == 2
MaxMonChecks == 3
MaxMonInFlight == 1

\* The calls of start() the monitor is driven with: a URL and whether a change
\* callback is passed (a status callback always is).
MonStartInputs ==
  {[url |-> RootA, onChange |-> TRUE], [url |-> RootB, onChange |-> FALSE]}

\* The state after the scripts have loaded, in a fresh session.
Init == MonInit /\ SchInit({NoStore}) /\ EngIdle

MonNext ==
  \/ \E o \in MonStartInputs :
       monGen < MaxMonStarts /\ MonStart(o.url, 0, o.onChange, TRUE)
  \/ MonStop
  \/ \E t \in monTimers :
       monitor.checkCount < MaxMonChecks
         /\ Cardinality(DOMAIN monChecks) < MaxMonInFlight
         /\ MonTick(t)
  \/ \E c \in DOMAIN monChecks, d \in Docs : MonFetchOk(c, d)
  \/ \E c \in DOMAIN monChecks : MonFetchFail(c)

MonSpec == Init /\ [][MonNext]_vars

(***************************************************************************)
(* Specifications of the scheduler                                         *)
(***************************************************************************)
\* What the fetcher returns: the anchors of the page, and the score and the
\* issues (by action) the engine finds on it.
Page(hrefs, score, issues) ==
  [from |-> Null, hrefs |-> hrefs, score |-> score, issues |-> issues]

LeafPage == Page(<< >>, 92, << "auto-fix" >>)

\* A root with one page of its own site, linked twice, and a foreign link.
SmallRoot ==
  Page(<< RelHref("/about", "", ""), AbsHref("other.example", "/", "", ""),
          SkipHref, RelHref("/about", "x=1", "top") >>,
       77, << "auto-fix", "escalate" >>)

MaxSchRuns == 3
MaxSchInFlight == 2

\* Every interleaving of start(), stop(), ticks and fetch completions.
SchedNext ==
  \/ scheduler.runCount < MaxSchRuns /\ SchStart(RootA, 0, TRUE, TRUE)
  \/ SchStop
  \/ \E t \in schTimers :
       scheduler.runCount < MaxSchRuns
         /\ Cardinality(DOMAIN schRuns) < MaxSchInFlight
         /\ SchTick(t)
  \/ \E r \in DOMAIN schRuns, p \in {LeafPage, SmallRoot} : SchRootOk(r, p, TRUE)
  \/ \E r \in DOMAIN schRuns : SchRootFail(r)
  \/ \E r \in DOMAIN schRuns : SchPageOk(r, LeafPage, TRUE)
  \/ \E r \in DOMAIN schRuns : SchPageFail(r, TRUE)
  \/ \E r \in DOMAIN schRuns : SchPageEmpty(r, TRUE)

SchedSpec == Init /\ [][SchedNext]_vars

\* Long sequences of runs of a root without links: ticks follow one another
\* up to MaxHistRuns runs; runs overlap or fail only among the first HistEarly.
MaxHistRuns == 52
HistEarly == 3

HistNext ==
  \/ schGen = 0 /\ SchStart(RootA, 0, TRUE, TRUE)
  \/ \E t \in schTimers :
       /\ scheduler.runCount < MaxHistRuns
       /\ DOMAIN schRuns = {} \/ scheduler.runCount < HistEarly
       /\ SchTick(t)
  \/ \E r \in DOMAIN schRuns, ok \in BOOLEAN : SchRootOk(r, LeafPage, ok)
  \/ \E r \in DOMAIN schRuns : scheduler.runCount <= HistEarly /\ SchRootFail(r)

\* The session store at page load: empty, or what the runs of an earlier load
\* of the page in the same session have persisted (their ids begin at 1 too).
PriorEntry(id) ==
  schEntry([url |-> RootA], id, << audit(RootA, [LeafPage EXCEPT !.from = RootA]) >>)

InitStores == {NoStore, Stored(<< PriorEntry(2), PriorEntry(1) >>)}

HistInit == MonInit /\ SchInit(InitStores) /\ EngIdle

HistSpec == HistInit /\ [][HistNext]_vars

\* Runs on a root with more links than a run audits.  The runs follow one
\* another: start() is called and a tick is taken between runs (the overlap of
\* runs is explored by SchedNext); stop() may be called while a run is
\* suspended.  A page fetch may fail among the first CrawlFailPages linked
\* pages of a run.
LinkPath(k) == "/p" \o ToString(k)

BigRoot ==
  Page([k \in 1..15 |-> RelHref(LinkPath(k), "", "")], 61, << "escalate" >>)

MaxCrawlRuns == 2
CrawlFailPages == 1

CrawlNext ==
  \/ \E u \in {RootA, RootB} :
       /\ scheduler.runCount < MaxCrawlRuns
       /\ DOMAIN schRuns = {}
       /\ SchStart(u, 0, FALSE, TRUE)
  \/ SchStop
  \/ \E t \in schTimers :
       /\ scheduler.runCount < MaxCrawlRuns
       /\ DOMAIN schRuns = {}
       /\ SchTick(t)
  \/ \E r \in DOMAIN schRuns, p \in {BigRoot, SmallRoot} : SchRootOk(r, p, TRUE)
  \/ \E r \in DOMAIN schRuns : SchRootFail(r)
  \/ \E r \in DOMAIN schRuns, ok \in BOOLEAN : SchPageOk(r, LeafPage, ok)
  \/ \E r \in DOMAIN schRuns :
       schRuns[r].i - 1 <= CrawlFailPages /\ SchPageFail(r, TRUE)

CrawlSpec == Init /\ [][CrawlNext]_vars

\* Runs on roots whose URL is written in several forms: with and without the
\* trailing slash, with a query, with a fragment.  The root page links to
\* itself (the "home" anchor), to two pages of its site and to another site.
RootBare  == Url("a.example", "", "", "")
RootQuery == Url("a.example", "/", "utm=1", "")
RootFrag  == Url("a.example", "/", "", "main")

RootForms == {RootA, RootBare, RootQuery, RootFrag}

HomePage ==
  Page(<< RelHref("/", "", ""), RelHref("/about", "", ""), SkipHref,
          RelHref("/about", "", "team"), AbsHref("other.example", "/", "", ""),
          InvalidHref, AbsHref("a.example", "/contact", "ref=nav", "") >>,
       70, << "escalate" >>)

MaxLinkRuns == 2

LinksNext ==
  \/ \E u \in RootForms :
       /\ scheduler.runCount < MaxLinkRuns
       /\ DOMAIN schRuns = {}
       /\ SchStart(u, 0, FALSE, TRUE)
  \/ \E r \in DOMAIN schRuns, p \in {HomePage, LeafPage} : SchRootOk(r, p, TRUE)
  \/ \E r \in DOMAIN schRuns : SchPageOk(r, LeafPage, TRUE)
  \/ \E r \in DOMAIN schRuns : SchPageFail(r, TRUE)

LinksSpec == Init /\ [][LinksNext]_vars

\* The monitor and the scheduler started once each, with a fetcher that may
\* answer, fail, or never respond.  The code arms no timer around fetch(), so
\* the only steps the program is bound to take are the ticks of its interval
\* timers; checks and runs follow one another.
MaxHangChecks == 2

HangMonTick ==
  \E t \in monTimers :
    /\ monitor.checkCount < MaxHangChecks
    /\ DOMAIN monChecks = {}
    /\ MonTick(t)

HangSchTick ==
  \E t \in schTimers :
    /\ scheduler.runCount < MaxHangChecks
    /\ DOMAIN schRuns = {}
    /\ SchTick(t)

HangNext ==
  \/ monGen = 0 /\ MonStart(RootA, 0, TRUE, TRUE)
  \/ HangMonTick
  \/ \E c \in DOMAIN monChecks, d \in {DocA, DocB} : MonFetchOk(c, d)
  \/ \E c \in DOMAIN monChecks : MonFetchFail(c)
  \/ schGen = 0 /\ SchStart(RootA, 0, TRUE, TRUE)
  \/ HangSchTick
  \/ \E r \in DOMAIN schRuns, p \in {LeafPage, SmallRoot} : SchRootOk(r, p, TRUE)
  \/ \E r \in DOMAIN schRuns : SchRootFail(r)
  \/ \E r \in DOMAIN schRuns : SchPageOk(r, LeafPage, TRUE)
  \/ \E r \in DOMAIN schRuns : SchPageFail(r, TRUE)

\* Armed interval timers fire; nothing in the code makes a fetch settle.
HangFairness == WF_vars(HangMonTick) /\ WF_vars(HangSchTick)

HangSpec == Init /\ [][HangNext]_vars /\ HangFairness

\* The monitor watching a page that comes back in several versions: with
\* another title, with the same fields and another text, with 10 and 11 words
\* more, and with every field changed.  Checks follow one another.
DocWords10 == [DocA EXCEPT !.raw = <<99>>, !.words = 110]
DocWords11 == [DocA EXCEPT !.raw = <<100>>, !.words = 111]
DocRedone ==
  [raw |-> <<101>>, title |-> "New", desc |-> "n", h1 |-> "Hi, There",
   words |-> 40, imgs |-> 0, links |-> 5, schema |-> 1]

DiffDocs == Docs \cup {DocWords10, DocWords11, DocRedone}

MaxDiffChecks == 3

DiffNext ==
  \/ monGen = 0 /\ MonStart(RootA, 0, TRUE, TRUE)
  \/ \E t \in monTimers :
       /\ monitor.checkCount < MaxDiffChecks
       /\ DOMAIN monChecks = {}
       /\ MonTick(t)
  \/ \E c \in DOMAIN monChecks, d \in DiffDocs : MonFetchOk(c, d)
  \/ \E c \in DOMAIN monChecks : MonFetchFail(c)

DiffSpec == Init /\ [][DiffNext]_vars

\* start() of both objects called with a configuration that is not valid.  An
\* interval that is not a number takes the branch of 0 in "intervalMs || default".
validConfig(url, intervalMs) == parseable(url) /\ intervalMs > 0

InvalidConfigs ==
  {c \in [url : {Null, EmptyUrl, BadUrl, RootA}, intervalMs : {0, -1000, 60000}] :
     ~validConfig(c.url, c.intervalMs)}

MaxConfigStarts == 1
MaxConfigChecks == 2

ConfigNext ==
  \/ \E c \in InvalidConfigs :
       monGen < MaxConfigStarts /\ MonStart(c.url, c.intervalMs, TRUE, TRUE)
  \/ MonStop
  \/ \E t \in monTimers : monitor.checkCount < MaxConfigChecks /\ MonTick(t)
  \/ \E c \in DOMAIN monChecks : MonFetchOk(c, DocA)
  \/ \E c \in DOMAIN monChecks : MonFetchFail(c)
  \/ \E c \in InvalidConfigs :
       schGen < MaxConfigStarts /\ SchStart(c.url, c.intervalMs, TRUE, TRUE)
  \/ SchStop
  \/ \E t \in schTimers : scheduler.runCount < MaxConfigChecks /\ SchTick(t)
  \/ \E r \in DOMAIN schRuns : SchRootOk(r, LeafPage, TRUE)
  \/ \E r \in DOMAIN schRuns : SchRootFail(r)

ConfigSpec == Init /\ [][ConfigNext]_vars

(***************************************************************************)
(* Properties of the monitor                                               *)
(***************************************************************************)
\* The notify() calls of the last step, as the status callback received them.
monNotified(out) == SelectSeq(out, LAMBDA e : e.cb = "onStatus")

monChangeEvents(out) == SelectSeq(monNotified(out), LAMBDA e : e.type = "change")

\* stop() ran after this suspended check() began.
monStale(check) == ~monitor.watching \/ check.gen < monGen

\* C1: the result of a fetch that was in flight when stop() was called is
\* discarded on arrival: lastHash, lastHtml and changesDetected keep their
\* values and no callback is invoked.
C1_StaleFetchDiscarded ==
  [][ (monStep'.op \in {"fetchOk", "fetchFail"} /\ monStale(monStep'.check))
        => /\ monitor'.lastHash = monitor.lastHash
           /\ monitor'.lastHtml = monitor.lastHtml
           /\ monitor'.changesDetected = monitor.changesDetected
           /\ monOut' = << >> ]_vars

\* C4: at most one check() is in flight at any time.
C4_OneCheckInFlight == Cardinality(DOMAIN monChecks) <= 1

\* C5: after every start() the first successful fetch only establishes the
\* baseline and fires no change event; a change event compares against a
\* baseline fetched since the latest start().
C5_BaselineAfterEveryStart ==
  [][ /\ (monStep'.op = "fetchOk" /\ monStep'.check.gen = monGen
            /\ monitor.watching /\ monBaseGen # monGen)
        => /\ Len(monChangeEvents(monOut')) = 0
           /\ monBaseGen' = monGen
           /\ monitor'.lastHtml = monStep'.html
      /\ Len(monChangeEvents(monOut')) > 0 => monBaseGen = monGen ]_vars

\* C6: with a baseline established, a fetch with the content of the previous
\* successful fetch is notified as 'no-change' and never as a change; a fetch
\* whose hash differs from the baseline is notified as exactly one 'change'
\* whose diff has at least one record (and the change callback, when one is
\* registered, is invoked exactly once).
C6_ChangeIffHashDiffers ==
  [][ (monStep'.op = "fetchOk" /\ monitor.lastHash # Null)
        => LET html   == monStep'.html
               events == monNotified(monOut')
               onCh   == SelectSeq(monOut', LAMBDA e : e.cb = "onChange")
           IN  /\ html = monitor.lastHtml
                 => /\ Len(monChangeEvents(monOut')) = 0
                    /\ Len(onCh) = 0
                    /\ Len(events) = 1
                    /\ events[1].data.state = "no-change"
               /\ hashContent(html.raw) # monitor.lastHash
                 => /\ Len(events) = 1
                    /\ events[1].type = "change"
                    /\ Len(events[1].data.diff) >= 1
                    /\ Len(onCh) = (IF monitor.onChangeCallback THEN 1 ELSE 0)
                    /\ \A i \in 1..Len(onCh) : Len(onCh[i].data.diff) >= 1 ]_vars

\* A change was notified for a page that differs from the baseline in no
\* field detectChanges looks at: the diff is the single 'general' record.
C6_Witness ==
  /\ monStep.op = "fetchOk"
  /\ Len(monChangeEvents(monOut)) = 1
  /\ monChangeEvents(monOut)[1].data.diff = << "general" >>

\* C10: when the fetch of a tick's check fails, an 'error' status is notified
\* and nothing else; lastHash, lastHtml, watching, the timer and the counters
\* keep their values, so the next tick passes the guard of check() exactly
\* when this one did; and every tick that finds the monitor watching begins
\* a check.
C10_FetchFailureKeepsWatching ==
  [][ /\ (monStep'.op = "fetchFail" /\ ~monStep'.check.initial)
        => /\ Len(monNotified(monOut')) = 1
           /\ monNotified(monOut')[1].data.state = "error"
           /\ Len(monChangeEvents(monOut')) = 0
           /\ monitor' = monitor
           /\ monTimers' = monTimers
      /\ (monStep'.op = "tick" /\ monitor.watching)
        => /\ monitor'.checkCount = monitor.checkCount + 1
           /\ Cardinality(DOMAIN monChecks') = Cardinality(DOMAIN monChecks) + 1 ]_vars

\* The fetch of a tick's check has just failed while the monitor is watching
\* with its timer armed and a baseline.
C10_Witness ==
  /\ monStep.op = "fetchFail"
  /\ ~monStep.check.initial
  /\ monitor.watching
  /\ monitor.interval \in monTimers
  /\ monitor.lastHash # Null

(***************************************************************************)
(* Properties of the scheduler                                             *)
(***************************************************************************)
\* stop() ran after this suspended execute() began.
schStale(run) == ~scheduler.active \/ run.gen < schGen

\* The last step resumed a suspended execute().
schResumed(step) ==
  step.op \in {"rootOk", "rootFail", "pageOk", "pageFail", "pageEmpty"}

\* C2: what arrives for a run that was in flight when stop() was called is
\* discarded: History and the session store keep their values and no
\* callback is invoked.
C2_StaleRunDiscarded ==
  [][ (schResumed(schStep') /\ schStale(schStep'.run))
        => /\ scheduler'.history = scheduler.history
           /\ schStore' = schStore
           /\ schOut' = << >> ]_vars

\* C3: at most one execute() is in flight at any time.
C3_OneRunInFlight == Cardinality(DOMAIN schRuns) <= 1

\* C7: History never holds more than maxHistory (50) entries; a run that
\* completes while History holds 50 entries puts its entry at index 0 and
\* drops the entry at the last index, the others keeping their order.
C7_HistoryBounded ==
  /\ Len(scheduler.history) <= maxHistory
  /\ [][ /\ Len(scheduler'.history) <= maxHistory
         /\ (schResumed(schStep') /\ schStep'.op # "rootFail"
               /\ DOMAIN schRuns' # DOMAIN schRuns
               /\ Len(scheduler.history) = maxHistory)
           => /\ scheduler'.history[1].id = schStep'.run.runId
              /\ Tail(scheduler'.history)
                   = SubSeq(scheduler.history, 1, maxHistory - 1) ]_vars

\* Runs 1 to 51 have completed in turn: the entry of run 51 is at index 0 and
\* the entry of run 1 is gone.
C7_Witness ==
  /\ Len(scheduler.history) = maxHistory
  /\ \A k \in 1..maxHistory : scheduler.history[k].id = 52 - k

\* C8: the page list of a run has at most 10 pages and begins with the root
\* (this.url when the list is built), which is the first page audited, from
\* the root fetch's HTML; no run has more than 10 audit results, whatever the
\* number of links on the root page.
C8_PageCap ==
  [][ /\ \A r \in DOMAIN schRuns' :
            /\ Len(schRuns'[r].pagesToAudit) <= MaxPagesPerRun
            /\ Len(schRuns'[r].results) <= MaxPagesPerRun
      /\ \A k \in 1..Len(scheduler'.history) : Len(scheduler'.history[k].pages) <= MaxPagesPerRun
      /\ schStep'.op = "rootOk"
           => LET r == CHOOSE x \in DOMAIN schRuns : schRuns[x] = schStep'.run
              IN  IF r \in DOMAIN schRuns'
                    THEN /\ schRuns'[r].pagesToAudit[1] = scheduler.url
                         /\ schRuns'[r].results[1]
                              = audit(scheduler.url, schRuns'[r].mainHtml)
                    ELSE /\ scheduler'.history[1].pages[1].url = scheduler.url
                         /\ scheduler'.history[1].pages[1].src = schStep'.run.fetching
    ]_vars

\* A run on a root with 15 links of its own site has completed with 10 pages
\* audited, the root first.
C8_Witness ==
  /\ Len(scheduler.history) > 0
  /\ scheduler.history[1].pagesAudited = 10
  /\ scheduler.history[1].pages[1].url = RootA
  /\ scheduler.history[1].pages[10].url = Url("a.example", LinkPath(9), "", "")

\* C9: when the root fetch of a run fails, an 'error' status is notified for
\* the run and nothing else happens: History, the store, the fields of the
\* object and the armed timers keep their values; an active scheduler has its
\* timer armed; and every tick begins a new run.
C9_RootFailureKeepsTicking ==
  [][ /\ schStep'.op = "rootFail"
        => /\ schOut' = << [cb |-> "onStatus", state |-> "error",
                            data |-> [run |-> schStep'.run.runId]] >>
           /\ scheduler' = scheduler
           /\ schStore' = schStore
           /\ schTimers' = schTimers
      /\ scheduler'.active => scheduler'.timer \in schTimers'
      /\ schStep'.op = "tick"
        => /\ scheduler'.runCount = scheduler.runCount + 1
           /\ \E r \in DOMAIN schRuns' \ DOMAIN schRuns :
                /\ schRuns'[r].pc = "root"
                /\ schRuns'[r].runId = scheduler'.runCount ]_vars

\* After one start(), two runs have failed and a tick has begun a third.
C9_Witness ==
  /\ schStep.op = "tick"
  /\ schGen = 1
  /\ scheduler.active
  /\ scheduler.runCount = 3
  /\ Len(scheduler.history) = 0
  /\ Cardinality(DOMAIN schRuns) = 1

\* The suspended execute() the last step resumed, and its results after the
\* step: those of the run if it is still suspended, else the pages of the
\* entry it has put at the front of History.
schResumedRun == CHOOSE x \in DOMAIN schRuns : schRuns[x] = schStep'.run

schResultsAfter ==
  IF schResumedRun \in DOMAIN schRuns'
    THEN schRuns'[schResumedRun].results
    ELSE scheduler'.history[1].pages

schErrors(out) == SelectSeq(out, LAMBDA e : e.cb = "onStatus" /\ e.state = "error")

\* C11: a failed fetch of a page other than the root leaves the results of the
\* run as they were and notifies no 'error'; a page fetch that succeeds adds
\* the audit of that page to the results; the run goes on to its next fetch
\* or completes with an entry for the run at the front of History that holds
\* these results.
C11_PageFailureOmitsPage ==
  [][ /\ schStep'.op \in {"pageOk", "pageFail", "pageEmpty"}
        => /\ Len(schErrors(schOut')) = 0
           /\ schResumedRun \notin DOMAIN schRuns'
                => /\ Len(scheduler'.history) > 0
                   /\ scheduler'.history[1].id = schStep'.run.runId
      /\ schStep'.op = "pageFail"
        => schResultsAfter = schStep'.run.results
      /\ schStep'.op \in {"pageOk", "pageEmpty"}
        => /\ Len(schResultsAfter) = Len(schStep'.run.results) + 1
           /\ schResultsAfter[Len(schResultsAfter)].url = schStep'.run.fetching
    ]_vars

\* The status callbacks of a step that tell the end of a run.
schEndEvents(out) ==
  SelectSeq(out, LAMBDA e : e.cb = "onStatus" /\ e.state \in {"completed", "scheduled"})

\* The last step resumed a suspended execute() that went to its end without
\* an exception.
schCompleted ==
  /\ schResumed(schStep')
  /\ schStep'.op # "rootFail"
  /\ schResumedRun \notin DOMAIN schRuns'

\* C12: a run is entered in the table of suspended runs by the step that
\* notifies 'running' for it; the step that completes it puts its entry at the
\* front of History, calls persist(), then notifies 'completed' with that
\* entry, then 'scheduled', in this order; no other step notifies 'completed'
\* or 'scheduled'.
C12_RunEventOrder ==
  [][ /\ \A r \in DOMAIN schRuns' \ DOMAIN schRuns :
            schLog' = << [op |-> "running", run |-> schRuns'[r].runId] >>
      /\ schCompleted
        => LET id == schStep'.run.runId
               L  == schLog'
               E  == schEndEvents(schOut')
           IN  /\ Len(L) \in {4, 5}
               /\ L[1] = [op |-> "unshift", run |-> id]
               /\ L[2] = [op |-> "persist", run |-> id]
               /\ L[3] = [op |-> "completed", run |-> id]
               /\ L[Len(L)] = [op |-> "scheduled", run |-> id]
               /\ Len(L) = 5 => L[4] = [op |-> "onRun", run |-> id]
               /\ scheduler'.history[1].id = id
               /\ schStore' \in {Stored(Take(scheduler'.history, PersistedEntries)), schStore}
               /\ scheduler.onStatusCallback
                    => /\ Len(E) = 2
                       /\ E[1].state = "completed"
                       /\ E[1].data = scheduler'.history[1]
                       /\ E[2].state = "scheduled"
      /\ ~schCompleted => Len(schEndEvents(schOut')) = 0
    ]_vars

\* A run whose root links to a page has completed on the arrival of that
\* page: its entry of two pages is at the front of History.
C12_Witness ==
  /\ schStep.op = "pageOk"
  /\ Len(schLog) = 5
  /\ schLog[1] = [op |-> "unshift", run |-> schStep.run.runId]
  /\ scheduler.history[1].id = schStep.run.runId
  /\ scheduler.history[1].pagesAudited = 2
  /\ schStore.item[1] = scheduler.history[1]

(***************************************************************************)
(* Timers                                                                  *)
(***************************************************************************)
\* C13: a monitor that is not watching has no interval timer armed, and at
\* most one interval timer is armed at any time.
C13_MonitorTimers ==
  /\ ~monitor.watching => monTimers = {}
  /\ Cardinality(monTimers) <= 1

\* C14: the scheduler holds a timer handle exactly when it is active, the
\* armed timers are exactly that handle (so never more than one), and a
\* start() with a URL begins exactly one run within the call: runCount grows
\* by one and one execute() is suspended at its root fetch of that URL.
C14_SchedulerTimers ==
  [][ /\ scheduler'.active <=> scheduler'.timer # Null
      /\ schTimers' = IF scheduler'.active THEN {scheduler'.timer} ELSE {}
      /\ schStep'.op = "start"
           => /\ scheduler'.active
              /\ scheduler'.runCount = scheduler.runCount + 1
              /\ Cardinality(DOMAIN schRuns' \ DOMAIN schRuns) = 1
              /\ DOMAIN schRuns \subseteq DOMAIN schRuns'
              /\ \A r \in DOMAIN schRuns' \ DOMAIN schRuns :
                   /\ schRuns'[r].pc = "root"
                   /\ schRuns'[r].runId = scheduler'.runCount
                   /\ schRuns'[r].fetching = scheduler'.url
              /\ schLog' = << [op |-> "running", run |-> scheduler'.runCount] >> ]_vars

\* start(), stop() and start() again while the first run is suspended: the
\* scheduler is active with one timer armed and the second run has begun.
C14_Witness ==
  /\ schStep.op = "start"
  /\ schGen = 2
  /\ scheduler.active
  /\ Cardinality(schTimers) = 1
  /\ scheduler.runCount = 2
  /\ Cardinality(DOMAIN schRuns) = 2

(***************************************************************************)
(* Configuration                                                           *)
(***************************************************************************)
\* C15: a start() of an idle Monitor or Scheduler with an invalid interval
\* (zero, negative, not a number) or an invalid URL (empty, null, unparseable)
\* is rejected: the object does not become watching/active, the call arms no
\* timer and issues no fetch.
C15_InvalidConfigRejected ==
  [][ /\ (monGen' = monGen + 1 /\ ~monitor.watching
            /\ ~validConfig(monStep'.url, monStep'.intervalMs))
        => /\ ~monitor'.watching
           /\ monTimers' \subseteq monTimers
           /\ monChecks' = monChecks
      /\ (schGen' = schGen + 1 /\ ~scheduler.active
            /\ ~validConfig(schStep'.url, schStep'.intervalMs))
        => /\ ~scheduler'.active
           /\ schTimers' \subseteq schTimers
           /\ schRuns' = schRuns ]_vars

(***************************************************************************)
(* Specifications and properties of the engine                             *)
(***************************************************************************)
\* calcScore applied to every list of up to MaxScoreIssues issues, and to the
\* lists obtained from them by exchanging two neighbours.
MaxScoreIssues == 7

IssueLists ==
  UNION {[1..k -> {[severity |-> v] : v \in Severities}] : k \in 0..MaxScoreIssues}

ScoreInit ==
  /\ MonInit /\ SchInit({NoStore})
  /\ engine \in {[op |-> "input", issues |-> l] : l \in IssueLists}

EngCalcScore ==
  /\ engine.op = "input"
  /\ engine' = [op |-> "calcScore", issues |-> engine.issues,
                score |-> calcScore(engine.issues)]
  /\ UNCHANGED <<monVars, schVars>>

EngReorder(i) ==
  /\ engine.op = "calcScore"
  /\ i \in 1..(Len(engine.issues) - 1)
  /\ engine.issues[i] # engine.issues[i + 1]
  /\ LET l == [engine.issues EXCEPT ![i] = engine.issues[i + 1],
                                    ![i + 1] = engine.issues[i]]
     IN  engine' = [op |-> "calcScore", issues |-> l, score |-> calcScore(l)]
  /\ UNCHANGED <<monVars, schVars>>

ScoreNext ==
  \/ EngCalcScore
  \/ \E i \in 1..MaxScoreIssues : EngReorder(i)

ScoreSpec == ScoreInit /\ [][ScoreNext]_vars

countSeverity(issues, v) == Len(SelectSeq(issues, LAMBDA i : i.severity = v))

\* C16: calcScore(issues) is 100 - 15 criticals - 8 warnings - 3 infos,
\* brought into [0,100]; it is the same after two issues exchange places.
C16_ScoreFormula ==
  [][ engine'.op = "calcScore"
        => LET l == engine'.issues
               n == 100 - 15 * countSeverity(l, "critical")
                        - 8 * countSeverity(l, "warning")
                        - 3 * countSeverity(l, "info")
           IN  /\ engine'.score = (IF n < 0 THEN 0 ELSE IF n > 100 THEN 100 ELSE n)
               /\ engine'.score \in 0..100
               /\ engine.op = "calcScore" => engine'.score = engine.score ]_vars

\* Seven critical issues: 100 - 105 is brought up to 0.
C16_Witness ==
  /\ engine.op = "calcScore"
  /\ Len(engine.issues) = 7
  /\ countSeverity(engine.issues, "critical") = 7
  /\ engine.score = 0

\* runChecks and calcScore applied, as audit() does, to page snapshots whose
\* title has every length up to MaxTitleLen and whose description has a
\* length around the limits of its rule, up to MaxDescLen.
MaxTitleLen == 61
MaxDescLen == 161

RECURSIVE Rep(_, _)
Rep(c, n) ==
  IF n = 0 THEN ""
  ELSE LET h == Rep(c, n \div 2)
       IN  h \o h \o (IF n % 2 = 1 THEN c ELSE "")

\* A page with none of the elements, one with all of them in order, and one
\* with flaws in them.
SoundMeta ==
  [EmptyMeta EXCEPT !.canonical = "https://a.example/",
                    !.ogTitle = "A", !.ogDesc = "About a", !.ogImage = "a.png",
                    !.twCard = "summary",
                    !.h1s = << "Head" >>, !.h2s = << "Sub" >>,
                    !.allHeadings = << [level |-> 1, text |-> "Head"],
                                       [level |-> 2, text |-> "Sub"] >>,
                    !.images = << [src |-> "a.png", alt |-> "a" ] >>,
                    !.wordCount = 300,
                    !.schema = << [type |-> "WebPage"] >>]

FlawedMeta ==
  [EmptyMeta EXCEPT !.ogTitle = "A",
                    !.h1s = << "Head", "Other" >>,
                    !.allHeadings = << [level |-> 1, text |-> "Head"],
                                       [level |-> 3, text |-> "Deep"],
                                       [level |-> 1, text |-> "Other"],
                                       [level |-> 4, text |-> "Deeper"] >>,
                    !.images = << [src |-> "a.png", alt |-> ""],
                                  [src |-> "b.png", alt |-> ""] >>,
                    !.wordCount = 299]

TitleLens == 0..MaxTitleLen
DescLens == {0, 1, 69, 70, 71} \cup (159..MaxDescLen)

ChecksMetas ==
  {[m EXCEPT !.title = Rep("t", a), !.description = Rep("d", b)] :
     m \in {EmptyMeta, SoundMeta, FlawedMeta}, a \in TitleLens, b \in DescLens}

ChecksInit ==
  /\ MonInit /\ SchInit({NoStore})
  /\ engine \in {[op |-> "input", meta |-> m, url |-> RootA] : m \in ChecksMetas}

\* audit(): issues = runChecks(meta, url); score = calcScore(issues)
EngRunChecks ==
  /\ engine.op = "input"
  /\ LET issues == runChecks(engine.meta, engine.url)
     IN  engine' = [op |-> "runChecks", meta |-> engine.meta, url |-> engine.url,
                    issues |-> issues, score |-> calcScore(issues)]
  /\ UNCHANGED <<monVars, schVars>>

ChecksNext == EngRunChecks

ChecksSpec == ChecksInit /\ [][ChecksNext]_vars

\* The rules of the issues, in the order of the list, that are among rs.
rulesAmong(issues, rs) ==
  LET l == SelectSeq(issues, LAMBDA i : i.rule \in rs)
  IN  [k \in 1..Len(l) |-> l[k].rule]

TitleRules == {"Missing Meta Title", "Meta Title Too Long", "Meta Title Too Short"}

DescriptionRules ==
  {"Missing Meta Description", "Meta Description Too Long", "Meta Description Too Short"}

\* C17: a title of 30 or of 60 characters has no title issue, one of 29 has
\* 'too short', one of 61 has 'too long', an empty one has 'missing' only;
\* no title has more than one title issue.
C17_TitleBoundaries ==
  engine.op = "runChecks"
    => LET n == Len(engine.meta.title)
           T == rulesAmong(engine.issues, TitleRules)
       IN  /\ Len(T) <= 1
           /\ n \in {30, 60} => T = << >>
           /\ n = 29 => T = << "Meta Title Too Short" >>
           /\ n = 61 => T = << "Meta Title Too Long" >>
           /\ n = 0 => T = << "Missing Meta Title" >>

\* A title of 60 characters on the page with all elements: no issue at all.
C17_Witness ==
  /\ engine.op = "runChecks"
  /\ Len(engine.meta.title) = 60
  /\ Len(engine.meta.description) = 70
  /\ engine.issues = << >>

\* C18: an empty description has 'Missing Meta Description' (critical) as its
\* only description issue; a description has 'too long' exactly when it is
\* longer than 160 and 'too short' exactly when it is shorter than 70; no
\* description has more than one description issue.
C18_DescriptionBoundaries ==
  engine.op = "runChecks"
    => LET n == Len(engine.meta.description)
           D == rulesAmong(engine.issues, DescriptionRules)
       IN  /\ Len(D) <= 1
           /\ n = 0
                => /\ D = << "Missing Meta Description" >>
                   /\ \A k \in 1..Len(engine.issues) :
                        engine.issues[k].rule = "Missing Meta Description"
                          => engine.issues[k].severity = "critical"
           /\ n > 0
                => /\ (D = << "Meta Description Too Long" >>) <=> (n > 160)
                   /\ (D = << "Meta Description Too Short" >>) <=> (n < 70)
                   /\ (n >= 70 /\ n <= 160) => D = << >>

\* A description of 161 characters: the one description issue is 'too long'.
C18_Witness ==
  /\ engine.op = "runChecks"
  /\ Len(engine.meta.description) = 161
  /\ rulesAmong(engine.issues, DescriptionRules) = << "Meta Description Too Long" >>

\* C19: the page with none of the elements has exactly the eight issues of
\* its missing elements, with their severities, and the score 30.
C19_EmptyPage ==
  (engine.op = "runChecks" /\ engine.meta = EmptyMeta)
    => /\ Len(engine.issues) = 8
       /\ {[rule |-> engine.issues[k].rule, severity |-> engine.issues[k].severity] :
              k \in 1..Len(engine.issues)}
            = {[rule |-> "Missing Meta Title", severity |-> "critical"],
               [rule |-> "Missing Meta Description", severity |-> "critical"],
               [rule |-> "Missing H1 Tag", severity |-> "critical"],
               [rule |-> "Missing Open Graph Tags", severity |-> "warning"],
               [rule |-> "Missing Canonical URL", severity |-> "info"],
               [rule |-> "Thin Content", severity |-> "warning"],
               [rule |-> "Missing Structured Data (Schema)", severity |-> "info"],
               [rule |-> "Missing Twitter Card Tags", severity |-> "info"]}
       /\ engine.score = 30

C19_Witness ==
  /\ engine.op = "runChecks"
  /\ engine.meta = EmptyMeta
  /\ Len(engine.issues) = 8
  /\ engine.score = 100 - 3 * 15 - 2 * 8 - 3 * 3

\* generateTitle applied to page snapshots that take each of its strategies,
\* and applied again to the snapshot with the generated title as its title.
LongHost == Url("www.specialty-coffee-roasters.example", "/", "", "")

\* A body with a phrase and keywords, one with three keywords and no phrase,
\* one whose phrase and keywords make more than 58 characters, and none.
PhraseBody == "Organic coffee beans roasted daily. Organic coffee beans shipped fresh."
KeywordBody == "Espresso grinder, kettle!"
LongPhraseBody ==
  "International certification; international certification: sustainability, sustainability"

TitleMetas ==
  {[EmptyMeta EXCEPT !.title = Rep("t", a), !.h1s = h, !.bodyText = b] :
     a \in TitleLens,
     h \in {<< >>, << "Short head" >>, << "Fresh Roasted Coffee", "Second" >>,
            << Rep("h", 50) >>, << Rep("h", 51) >>},
     b \in {"", PhraseBody, KeywordBody, LongPhraseBody}}

TitleInit ==
  /\ MonInit /\ SchInit({NoStore})
  /\ engine \in {[op |-> "input", meta |-> m, url |-> u] :
                    m \in TitleMetas, u \in {RootA, LongHost, BadUrl}}

EngGenerateTitle ==
  /\ engine.op = "input"
  /\ engine' = [op |-> "generateTitle", meta |-> engine.meta, url |-> engine.url,
                title |-> generateTitle(engine.meta, engine.url)]
  /\ UNCHANGED <<monVars, schVars>>

\* The generated title becomes the title of the snapshot.
EngFeedTitleBack ==
  /\ engine.op = "generateTitle"
  /\ LET m == [engine.meta EXCEPT !.title = engine.title]
     IN  engine' = [op |-> "regenerated", meta |-> m, url |-> engine.url,
                    first |-> engine.title,
                    title |-> generateTitle(m, engine.url)]
  /\ UNCHANGED <<monVars, schVars>>

TitleNext == EngGenerateTitle \/ EngFeedTitleBack

TitleSpec == TitleInit /\ [][TitleNext]_vars

\* C20: generateTitle of the snapshot whose title is a generated title is
\* that title.
C20_GenerateTitleIdempotent ==
  engine.op = "regenerated" => engine.title = engine.first

\* A title generated from an H1 of 50 characters and a long domain name has
\* more than 60 characters, and is generated again from the same H1.
C20_Witness ==
  /\ engine.op = "regenerated"
  /\ Len(engine.first) > 60
  /\ Len(engine.meta.h1s) = 1
  /\ engine.title = engine.meta.h1s[1] \o " | Www.specialty-coffee-roasters"

(***************************************************************************)
(* Run entries                                                             *)
(***************************************************************************)
\* The pairs (page, unit) counting the score points of the pages of an entry.
scorePoints(pages) ==
  {x \in (1..Len(pages)) \X (1..100) : x[2] <= pages[x[1]].score}

\* The pairs (page, index) designating the issues of the pages of an entry.
issueSlots(pages) ==
  UNION {{<<k, j>> : j \in 1..Len(pages[k].issues)} : k \in 1..Len(pages)}

aggregatesFromPages(entry) ==
  LET n   == Len(entry.pages)
      sum == Cardinality(scorePoints(entry.pages))
      by(action) == {x \in issueSlots(entry.pages) :
                       entry.pages[x[1]].issues[x[2]] = action}
  IN  /\ entry.pagesAudited = n
      /\ n = 0 => entry.avgScore = 0
      /\ n > 0 => /\ 2 * n * entry.avgScore > 2 * sum - n
                  /\ 2 * n * entry.avgScore <= 2 * sum + n
      /\ entry.totalIssues = Cardinality(issueSlots(entry.pages))
      /\ entry.autoFixed = Cardinality(by("auto-fix"))
      /\ entry.escalated = Cardinality(by("escalate"))

\* C21: the aggregates of every Run Entry are those of its own page results:
\* avgScore is the mean of the page scores rounded to the nearest integer (0
\* without page result); totalIssues, autoFixed and escalated are the sums
\* over the pages of the issues, the auto-fix issues and the escalate issues.
C21_EntryAggregates ==
  \A i \in 1..Len(scheduler.history) : aggregatesFromPages(scheduler.history[i])

\* An entry of nine pages, one linked page of ten having failed, whose mean
\* score (61 + 8 * 92) / 9 is not an integer.
C21_Witness ==
  /\ Len(scheduler.history) > 0
  /\ LET e == scheduler.history[1]
     IN  /\ Len(e.pages) = 9
         /\ e.avgScore = 89
         /\ e.totalIssues = 9 /\ e.autoFixed = 8 /\ e.escalated = 1
  /\ schStep.op = "pageOk"
  /\ Len(schStep.run.pagesToAudit) = 10
  /\ C21_EntryAggregates

(***************************************************************************)
(* hashContent                                                             *)
(***************************************************************************)
\* hashContent applied to the strings of at most MaxHashLen characters over
\* a few UTF-16 code units: NUL, a space, a letter and the largest one.
MaxHashLen == 5

HashCodes == {0, 32, 97, 65535}

RECURSIVE HashStrings(_)
HashStrings(n) ==
  IF n = 0 THEN {<< >>}
  ELSE LET shorter == HashStrings(n - 1)
       IN  shorter \cup {Append(t, c) : t \in shorter, c \in HashCodes}

\* The character codes of "<html>".
HtmlTag == << 60, 104, 116, 109, 108, 62 >>

HashInit ==
  /\ MonInit /\ SchInit({NoStore})
  /\ engine \in {[op |-> "input", str |-> t] :
                    t \in HashStrings(MaxHashLen) \cup {HtmlTag}}

\* hashContent(str): the value of hash after each iteration of the loop (at
\* index i + 1 the value after i characters) and the string returned.
MonHashContent ==
  /\ engine.op = "input"
  /\ engine' = [op |-> "hashContent", str |-> engine.str,
                hashes |-> [k \in 1..(Len(engine.str) + 1) |->
                              hashLoop(5381, SubSeq(engine.str, 1, k - 1), 1)],
                result |-> hashContent(engine.str)]
  /\ UNCHANGED <<monVars, schVars>>

HashNext == MonHashContent

HashSpec == HashInit /\ [][HashNext]_vars

\* C22: every intermediate and final value of hash is non-negative, and the
\* string returned is the base-16 rendering of a non-negative value (it has
\* no minus sign).
C22_HashUnsigned ==
  engine.op = "hashContent" =>
    /\ \A k \in DOMAIN engine.hashes : engine.hashes[k] >= 0
    /\ ~engine.result.neg

(***************************************************************************)
(* Link discovery                                                          *)
(***************************************************************************)
\* C23: the links a run has discovered (the page list after its first
\* element) have the root's host name, are pairwise distinct, carry neither
\* query nor fragment, and none of them is the root page itself, so that the
\* root is the only page of the list at the root's address.
C23_RootNotAmongLinks ==
  \A r \in DOMAIN schRuns :
    LET ps == schRuns[r].pagesToAudit
    IN  \A k \in 2..Len(ps) :
          /\ ps[k].host = ps[1].host
          /\ ps[k].query = "" /\ ps[k].frag = ""
          /\ \A j \in 2..Len(ps) : ps[j] = ps[k] => j = k
          /\ cleanUrl(ps[k]) # cleanUrl(ps[1])

(***************************************************************************)
(* Termination of checks and runs                                          *)
(***************************************************************************)
\* C24: a check of the monitor and a run of the scheduler that have begun
\* come to their end (a terminal status is notified and they are no longer
\* pending), even when the fetcher does not respond.
C24_ChecksAndRunsEnd ==
  /\ (DOMAIN monChecks # {}) ~> (DOMAIN monChecks = {})
  /\ (DOMAIN schRuns # {}) ~> (DOMAIN schRuns = {})

(***************************************************************************)
(* Order of History                                                        *)
(***************************************************************************)
\* C25: the ids of the entries of History are strictly decreasing from the
\* first entry on (hence pairwise distinct).
C25_HistoryIdsDecreasing ==
  \A i \in 1..(Len(scheduler.history) - 1) :
    scheduler.history[i].id > scheduler.history[i + 1].id

(***************************************************************************)
(* Session store                                                           *)
(***************************************************************************)
\* The last step has run persist().
schPersisted == \E k \in 1..Len(schLog') : schLog'[k].op = "persist"

\* C26: after a run has persisted History, either the store has accepted the
\* write and restore() yields the History of that moment, or the store has
\* failed and keeps what it held.
C26_PersistRestoreRoundTrip ==
  [][ schPersisted =>
        \/ restore(schStore') = scheduler'.history
        \/ schStore' = schStore ]_vars

(***************************************************************************)
(* Ranking tips                                                            *)
(***************************************************************************)
\* generateRankingTips as generateOptimizedTags calls it, with the ten top
\* keywords of the body text, on snapshots on each side of its thresholds.
\* The body texts: none, one made of stop words and short tokens only, and
\* two with keywords.
StopWordBody == "The one and only: it is what we do, so go on!"

TipsMetas ==
  {[m EXCEPT !.wordCount = w, !.internalLinks = [k \in 1..l |-> "/p"],
             !.bodyText = b] :
     m \in {EmptyMeta, SoundMeta, FlawedMeta},
     w \in {0, 200, 201, 299, 300, 799, 800},
     l \in {0, 2, 3},
     b \in {"", StopWordBody, KeywordBody, PhraseBody}}

TipsInit ==
  /\ MonInit /\ SchInit({NoStore})
  /\ engine \in {[op |-> "input", meta |-> m] : m \in TipsMetas}

EngGenerateRankingTips ==
  /\ engine.op = "input"
  /\ LET keywords == extractKeywords(engine.meta.bodyText, 10)
     IN  engine' = [op |-> "generateRankingTips", meta |-> engine.meta,
                    keywords |-> keywords,
                    tips |-> generateRankingTips(engine.meta, keywords)]
  /\ UNCHANGED <<monVars, schVars>>

TipsNext == EngGenerateRankingTips

TipsSpec == TipsInit /\ [][TipsNext]_vars

\* C27: the list generateRankingTips returns contains the tip of priority
\* 'info' that sums up the top keywords.
C27_InfoTipAlwaysPresent ==
  engine.op = "generateRankingTips" =>
    \E k \in 1..Len(engine.tips) : engine.tips[k].priority = "info"

(***************************************************************************)
(* Keywords of a body with one meaningful word                             *)
(***************************************************************************)
\* Bodies of at most MaxPieces pieces separated by one space: one meaningful
\* word, written in one or two ways, among stop words, tokens of at most two
\* characters and line breaks.  extractKeywords is called with its default
\* count of 8.
MaxPieces == 4

MeaningfulWords == {"coffee", "e-mail", "don't", "2024"}

\* The forms in which a word is written in a body.
Spellings(w) == {w, capitalize(w)}

Fillers == {"the", "It", "7,", "\n"}

RECURSIVE joinPieces(_)
joinPieces(ps) ==
  IF Len(ps) = 0 THEN ""
  ELSE IF Len(ps) = 1 THEN ps[1]
  ELSE ps[1] \o " " \o joinPieces(Tail(ps))

PieceLists(w) ==
  {ps \in UNION {[1..n -> Spellings(w) \cup Fillers] : n \in 1..MaxPieces} :
     \E k \in 1..Len(ps) : ps[k] \in Spellings(w)}

KeywordInit ==
  /\ MonInit /\ SchInit({NoStore})
  /\ engine \in UNION {{[op |-> "input", word |-> w, pieces |-> ps] :
                            ps \in PieceLists(w)} : w \in MeaningfulWords}

EngExtractKeywords ==
  /\ engine.op = "input"
  /\ engine' = [op |-> "extractKeywords", word |-> engine.word,
                pieces |-> engine.pieces,
                keywords |-> extractKeywords(joinPieces(engine.pieces), 8)]
  /\ UNCHANGED <<monVars, schVars>>

KeywordNext == EngExtractKeywords

KeywordSpec == KeywordInit /\ [][KeywordNext]_vars

\* C28: the keywords of a body made of one meaningful word, repeated any
\* number of times among stop words and tokens of at most two characters, are
\* that word alone.
C28_SingleKeyword ==
  engine.op = "extractKeywords" => engine.keywords = << engine.word >>

\* The word occurs twice, in two spellings, between a stop word and a short
\* token.
C28_Witness ==
  /\ engine.op = "extractKeywords"
  /\ engine.pieces = << "the", "Coffee", "7,", "coffee" >>
  /\ engine.keywords = << "coffee" >>

(***************************************************************************)
(* The diff of a change                                                    *)
(***************************************************************************)
DiffFields ==
  {"title", "meta-description", "h1", "content-length", "images", "links", "schema"}

\* The field of the given type differs between the two versions of the page.
fieldDiffers(type, old, new) ==
  CASE type = "title"            -> old.title # new.title
    [] type = "meta-description" -> old.desc # new.desc
    [] type = "h1"               -> old.h1 # new.h1
    [] type = "content-length"   -> new.words - old.words > 10 \/ old.words - new.words > 10
    [] type = "images"           -> old.imgs # new.imgs
    [] type = "links"            -> old.links # new.links
    [] type = "schema"           -> old.schema # new.schema

diffOfFields(diff, old, new) ==
  LET types == {diff[k] : k \in 1..Len(diff)}
  IN  /\ Cardinality(types) = Len(diff)
      /\ \A t \in DiffFields : t \in types <=> fieldDiffers(t, old, new)
      /\ "general" \in types <=> \A t \in DiffFields : ~fieldDiffers(t, old, new)
      /\ types \subseteq DiffFields \cup {"general"}

\* C29: when a fetch has a hash that differs from the baseline, every
\* callback invoked receives one 'change' event whose diff is the diff of the
\* previous baseline HTML and the new HTML (one record per differing field,
\* a single 'general' record exactly when none differs), and finds the new
\* hash and HTML as the baseline of the monitor.
C29_ChangeDiffAndBaseline ==
  [][ (/\ monStep'.op = "fetchOk"
       /\ monitor.lastHash # Null
       /\ hashContent(monStep'.html.raw) # monitor.lastHash)
        => /\ Len(monNotified(monOut')) = 1
           /\ monitor'.lastHash = hashContent(monStep'.html.raw)
           /\ monitor'.lastHtml = monStep'.html
           /\ \A k \in 1..Len(monOut') :
                /\ monOut'[k].type = "change"
                /\ diffOfFields(monOut'[k].data.diff, monitor.lastHtml, monStep'.html)
                /\ monOut'[k].baseline.hash = hashContent(monStep'.html.raw)
                /\ monOut'[k].baseline.html = monStep'.html ]_vars

\* A change from the page with 111 words to the first version of the page
\* (100 words) is notified with the single record 'content-length'; the
\* callback finds the first version as the baseline.
C29_Witness ==
  /\ monStep.op = "fetchOk"
  /\ monStep.html = DocA
  /\ Len(monOut) = 2
  /\ monOut[1].cb = "onChange"
  /\ monOut[1].data.diff = << "content-length" >>
  /\ monOut[1].data.prevHash = hashContent(DocWords11.raw)
  /\ monOut[1].baseline.html = DocA
  /\ monitor.lastHtml = DocA

(***************************************************************************)
(* No check while stopped                                                  *)
(***************************************************************************)
\* C30: a step taken while the monitor is not watching, other than start(),
\* and stop() itself, begin no check: no fetch is issued, checkCount keeps
\* its value and no 'checking' status is notified, even when the step is the
\* tick of a timer.
C30_NoCheckWhileStopped ==
  [][ ((~monitor.watching /\ monStep'.op # "start") \/ monStep'.op = "stop")
        => /\ DOMAIN monChecks' \subseteq DOMAIN monChecks
           /\ \A c \in DOMAIN monChecks' : monChecks'[c] = monChecks[c]
           /\ monitor'.checkCount = monitor.checkCount
           /\ \A k \in 1..Len(monOut') :
                ~(monOut'[k].type = "status" /\ monOut'[k].data.state = "checking") ]_vars

\* A timer, armed when the first check settled after stop(), has ticked while
\* the monitor was not watching: nothing was notified and no check is pending.
C30_Witness ==
  /\ monStep.op = "tick"
  /\ ~monitor.watching
  /\ monTimers # {}
  /\ monOut = << >>
  /\ monChecks = << >>
  /\ monitor.checkCount = 1

(***************************************************************************)
(* stop() of the scheduler                                                 *)
(***************************************************************************)
\* C31: stop() changes no field of the scheduler but timer and active: it
\* clears the timer, sets active to false and notifies 'stopped' to the status
\* callback, if one is registered, History, runCount and url keeping their
\* values; and a step taken while the
\* scheduler is not active, other than start(), begins no run: runCount does
\* not increase and no 'running' status is notified.
C31_StopFrame ==
  [][ /\ schStep'.op = "stop"
        => /\ scheduler' = [scheduler EXCEPT !.timer = Null, !.active = FALSE]
           /\ schTimers' = schTimers \ {scheduler.timer}
           /\ schRuns' = schRuns
           /\ schStore' = schStore
           /\ Len(schOut') = (IF scheduler.onStatusCallback THEN 1 ELSE 0)
           /\ \A k \in 1..Len(schOut') : schOut'[k].state = "stopped"
      /\ (~scheduler.active /\ schStep'.op # "start")
        => /\ scheduler'.runCount = scheduler.runCount
           /\ DOMAIN schRuns' \subseteq DOMAIN schRuns
           /\ \A k \in 1..Len(schOut') :
                ~(schOut'[k].cb = "onStatus" /\ schOut'[k].state = "running") ]_vars

\* stop() was called with two entries in History and a run in flight.
C31_Witness ==
  /\ schStep.op = "stop"
  /\ Len(scheduler.history) = 2
  /\ scheduler.runCount = 3
  /\ scheduler.url = RootA
  /\ DOMAIN schRuns # {}
  /\ schTimers = {}

(***************************************************************************)
(* Strategies of generateTitle                                             *)
(***************************************************************************)
\* The k-th strategy of generateTitle: whether it applies to the snapshot,
\* and the title it gives.
titleStrategy(k, meta, url) ==
  LET name == capitalize(stripTld(domain(url)))
      kws  == extractKeywords(meta.bodyText, 5)
      phs  == extractPhrases(meta.bodyText, 3)
  IN  CASE k = 1 ->
             [applies |-> Len(meta.title) \in 30..60, result |-> meta.title]
        [] k = 2 ->
             [applies |-> Len(meta.h1s) > 0 /\ Len(meta.h1s[1]) \in 15..50,
              result  |-> IF Len(meta.h1s) > 0
                            THEN meta.h1s[1] \o " | " \o name ELSE ""]
        [] k = 3 ->
             [applies |-> Len(phs) > 0,
              result  |->
                IF Len(phs) = 0 THEN ""
                ELSE LET long == titleCase(phs[1]) \o
                                   (IF Len(kws) >= 2
                                      THEN " ~ " \o titleCase(kws[1]) \o " & "
                                             \o titleCase(kws[2])
                                      ELSE "")
                     IN  IF Len(long) > 58
                           THEN SubSeq(long, 1, 57) \o "..."
                           ELSE long \o " | " \o name]
        [] k = 4 ->
             [applies |-> Len(kws) >= 3,
              result  |-> IF Len(kws) < 3 THEN ""
                          ELSE titleCase(kws[1]) \o " " \o titleCase(kws[2]) \o " "
                                 \o titleCase(kws[3]) \o " ~ " \o name]
        [] k = 5 ->
             [applies |-> TRUE, result |-> name \o " ~ Your Trusted Source"]

\* C32: the title generateTitle returns is the result of the first of its
\* five strategies that applies to the snapshot.
C32_FirstApplicableStrategy ==
  engine.op = "generateTitle" =>
    LET applicable == {k \in 1..5 : titleStrategy(k, engine.meta, engine.url).applies}
        first == CHOOSE k \in applicable : \A j \in applicable : k <= j
    IN  engine.title = titleStrategy(first, engine.meta, engine.url).result

\* The title is too long, the H1 too short and the body has no phrase: the
\* fourth strategy gives the title, from three keywords.
C32_Witness ==
  /\ engine.op = "generateTitle"
  /\ Len(engine.meta.title) = 61
  /\ engine.meta.h1s = << "Short head" >>
  /\ engine.meta.bodyText = KeywordBody
  /\ engine.url = RootA
  /\ engine.title = "Espresso Grinder Kettle ~ A"

(***************************************************************************)
(* generateDescription                                                     *)
(***************************************************************************)
\* Bodies that take each way through generateDescription: no text; a
\* sentence with three keywords; a sentence with two; a repeated phrase in
\* sentences of 20 characters or less, with and without a third keyword;
\* keywords alone; six long keywords in a sentence of 120 characters or more;
\* a sentence of 107 characters of three long keywords; one of 119 characters.
LongWord(c, n) == Rep(c, n - 1) \o "z"

DescBodies ==
  {"",
   KeywordBody,
   "Espresso grinder for you.",
   "Organic coffee. Organic coffee. Fresh.",
   "Organic coffee.\n Organic coffee!",
   "Espresso. Grinder?",
   join(<< LongWord("a", 20), LongWord("b", 20), LongWord("c", 20),
           LongWord("d", 20), LongWord("e", 20), LongWord("f", 20) >>, " "),
   join(<< LongWord("a", 35), LongWord("b", 35), LongWord("c", 35) >>, " ") \o ".",
   "  " \o join(<< LongWord("a", 39), LongWord("b", 39), LongWord("c", 39) >>, " ")
        \o " !? ok"}

DescMetas ==
  {[EmptyMeta EXCEPT !.description = Rep("d", a), !.bodyText = b] :
     a \in DescLens, b \in DescBodies}

DescInit ==
  /\ MonInit /\ SchInit({NoStore})
  /\ engine \in {[op |-> "input", meta |-> m, url |-> u] :
                    m \in DescMetas, u \in {RootA, LongHost, BadUrl, EmptyUrl}}

EngGenerateDescription ==
  /\ engine.op = "input"
  /\ engine' = [op |-> "generateDescription", meta |-> engine.meta, url |-> engine.url,
                description |-> generateDescription(engine.meta, engine.url)]
  /\ UNCHANGED <<monVars, schVars>>

DescNext == EngGenerateDescription

DescSpec == DescInit /\ [][DescNext]_vars

\* C33: the description generateDescription returns has 70 to 160
\* characters, whether it is the description of the page or a generated one.
C33_DescriptionLength ==
  engine.op = "generateDescription" => Len(engine.description) \in 70..160

\* C33: a generated description of 24 characters, which the final pass pads.
C33_Witness ==
  /\ engine.op = "generateDescription"
  /\ Len(engine.meta.description) = 69
  /\ engine.meta.bodyText = "Organic coffee.\n Organic coffee!"
  /\ composeDescription(engine.meta, engine.url) = "Explore organic coffee. "
  /\ engine.description = "Explore organic coffee. " \o DescriptionPadding

(***************************************************************************)
(* The rule catalog                                                        *)
(***************************************************************************)
\* runChecks and calcScore applied to the snapshots in which every rule
\* group is met or broken independently of the others.  The headings of a
\* page are up to MaxHeadings headings of the levels 1, 2, 3 and 5; its H1
\* texts are those of its headings of level 1, as extractMeta collects them.
MaxHeadings == 3

HeadingLevels == {1, 2, 3, 5}

HeadingLists ==
  UNION {[1..k -> {[level |-> l, text |-> "Heading"] : l \in HeadingLevels}] :
           k \in 0..MaxHeadings}

textsOfLevel(hs, l) ==
  LET of == SelectSeq(hs, LAMBDA h : h.level = l)
  IN  [k \in 1..Len(of) |-> of[k].text]

RuleMetas ==
  {[EmptyMeta EXCEPT !.title = Rep("t", a), !.description = Rep("d", b),
                     !.allHeadings = hs, !.h1s = textsOfLevel(hs, 1),
                     !.images = im, !.ogTitle = og, !.ogDesc = og,
                     !.canonical = c, !.wordCount = w, !.schema = sc,
                     !.twCard = tw] :
     a \in {0, 30, 61}, b \in {0, 70, 161}, hs \in HeadingLists,
     im \in {<< >>, << [src |-> "a.png", alt |-> ""] >>}, og \in {"", "A"},
     c \in {"", "https://a.example/"}, w \in {299, 300},
     sc \in {<< >>, << [type |-> "WebPage"] >>}, tw \in {"", "summary"}}

RulesInit ==
  /\ MonInit /\ SchInit({NoStore})
  /\ engine \in {[op |-> "input", meta |-> m, url |-> RootA] : m \in RuleMetas}

RulesSpec == RulesInit /\ [][ChecksNext]_vars

\* The rule groups in the order of the catalog.
Catalog ==
  << TitleRules, DescriptionRules, {"Missing H1 Tag", "Multiple H1 Tags"},
     {"Broken Heading Hierarchy"}, {"Images Missing Alt Text"},
     {"Missing Open Graph Tags"}, {"Missing Canonical URL"}, {"Thin Content"},
     {"Missing Structured Data (Schema)"}, {"Missing Twitter Card Tags"} >>

groupOf(rule) == CHOOSE g \in 1..Len(Catalog) : rule \in Catalog[g]

\* C34: the issue at index k of the list runChecks returns has the id k
\* (counted from 0), and the issues are in the order of the catalog.
C34_IdsAndCatalogOrder ==
  engine.op = "runChecks"
    => /\ \A k \in 1..Len(engine.issues) :
            /\ engine.issues[k].id = k - 1
            /\ \E g \in 1..Len(Catalog) : engine.issues[k].rule \in Catalog[g]
       /\ \A j, k \in 1..Len(engine.issues) :
            j < k => groupOf(engine.issues[j].rule) < groupOf(engine.issues[k].rule)

\* C34: a page that breaks the second, the fourth and the eighth group only.
C34_Witness ==
  /\ engine.op = "runChecks"
  /\ Len(engine.issues) = 3
  /\ engine.issues[1] = [id |-> 0, rule |-> "Meta Description Too Long",
                         severity |-> "warning", action |-> "auto-fix"]
  /\ engine.issues[2] = [id |-> 1, rule |-> "Broken Heading Hierarchy",
                         severity |-> "warning", action |-> "escalate"]
  /\ engine.issues[3] = [id |-> 2, rule |-> "Thin Content",
                         severity |-> "warning", action |-> "escalate"]

issuesOfGroup(issues, g) == SelectSeq(issues, LAMBDA i : i.rule \in Catalog[g])

\* C38: one audit reports at most 10 issues, at most one of each rule group;
\* its score is 14 or more, and it is the score before the clamp at 0.
C38_TenIssuesScoreFloor ==
  engine.op = "runChecks"
    => /\ Len(engine.issues) <= 10
       /\ \A g \in 1..Len(Catalog) : Len(issuesOfGroup(engine.issues, g)) <= 1
       /\ engine.score >= 14
       /\ engine.score = scoreLoop(engine.issues, 1, 100)

\* C38: the page that breaks every rule group, three of them critically.
C38_Witness ==
  /\ engine.op = "runChecks"
  /\ Len(engine.issues) = 10
  /\ \A g \in 1..Len(Catalog) : Len(issuesOfGroup(engine.issues, g)) = 1
  /\ countSeverity(engine.issues, "critical") = 3
  /\ countSeverity(engine.issues, "warning") = 4
  /\ countSeverity(engine.issues, "info") = 3
  /\ Len(engine.meta.allHeadings) = 3
  /\ engine.score = 14

(***************************************************************************)
(* A run and the URL of the scheduler                                      *)
(***************************************************************************)
\* start() called for one site or the other, also while a run is suspended
\* at a fetch, and the fetches answered or failed in every order.
MaxSwitchRuns == 2

SwitchNext ==
  \/ \E u \in {RootA, RootB} :
       scheduler.runCount < MaxSwitchRuns /\ SchStart(u, 0, TRUE, TRUE)
  \/ \E r \in DOMAIN schRuns, p \in {LeafPage, SmallRoot} : SchRootOk(r, p, TRUE)
  \/ \E r \in DOMAIN schRuns : SchRootFail(r)
  \/ \E r \in DOMAIN schRuns : SchPageOk(r, LeafPage, TRUE)
  \/ \E r \in DOMAIN schRuns : SchPageFail(r, TRUE)

SwitchSpec == Init /\ [][SwitchNext]_vars

\* C35: every Audit Result of a Run Entry in History was computed from the
\* page fetched from the result's own url, and the url of the entry is the
\* url of its first result.
C35_ResultsFromOwnUrl ==
  \A k \in 1..Len(scheduler.history) :
    LET entry == scheduler.history[k]
    IN  /\ \A j \in 1..Len(entry.pages) : entry.pages[j].src = entry.pages[j].url
        /\ Len(entry.pages) > 0 => entry.url = entry.pages[1].url

(***************************************************************************)
(* The counters of the monitor                                             *)
(***************************************************************************)
\* C36: the monitor has never counted more changes than checks.
C36_ChangesWithinChecks == monitor.changesDetected <= monitor.checkCount

\* C37: when the fetch of the initial check fails, the periodic timer is
\* armed as the check ends and the monitor is left without the baseline it
\* did not have; and a page that arrives while the monitor has no baseline
\* becomes the baseline: a 'baseline' status is notified, no change is
\* notified or counted.
C37_BaselineAfterFailedStart ==
  [][ /\ (monStep'.op = "fetchFail" /\ monStep'.check.initial)
        => /\ monitor'.interval # Null
           /\ monitor'.interval \notin monTimers
           /\ monTimers' = monTimers \cup {monitor'.interval}
           /\ monitor'.lastHash = monitor.lastHash
           /\ Len(monNotified(monOut')) = 1
           /\ monNotified(monOut')[1].data.state = "error"
      /\ (monStep'.op = "fetchOk" /\ monitor.lastHash = Null)
        => /\ monitor'.lastHash = hashContent(monStep'.html.raw)
           /\ monitor'.lastHtml = monStep'.html
           /\ monitor'.changesDetected = monitor.changesDetected
           /\ Len(monChangeEvents(monOut')) = 0
           /\ Len(monNotified(monOut')) = 1
           /\ monNotified(monOut')[1].data.state = "baseline" ]_vars

\* The first start(), its initial fetch failed, and the check of the first
\* tick has just established the baseline.
C37_Witness ==
  /\ monStep.op = "fetchOk"
  /\ ~monStep.check.initial
  /\ monGen = 1
  /\ monitor.watching
  /\ monitor.interval \in monTimers
  /\ monitor.checkCount = 2
  /\ monitor.changesDetected = 0
  /\ monitor.lastHash = hashContent(monStep.html.raw)
  /\ Len(monNotified(monOut)) = 1
  /\ monNotified(monOut)[1].data.state = "baseline"

====
